---- MODULE Spec2Model ----
(***************************************************************************)
(* Batch translation orchestration of the spreadsheet translator.          *)
(*                                                                         *)
(* Part 1: translator/batch_processor.py -- BatchProcessor.process_texts,  *)
(*   its retry wrapper, TranslationTask and the TranslationManager worker  *)
(*   thread, interleaved with cancel_processing() issued by the GUI thread.*)
(* Part 2: application/usecases/translate_text_usecase.py -- the sheet     *)
(*   orchestrator (_translate_sheet / _translate_batch / _should_skip_text)*)
(*   driven by TranslateTextUseCase.execute.                               *)
(***************************************************************************)
EXTENDS Integers, Sequences, FiniteSets, TLC

\* ------------------------------------------------------------------ bounds
MaxLen == 3          \* longest text list of a task
MaxTasks == 2        \* most tasks queued in the manager
MaxBatch == 2        \* largest batch size tried
MaxRetries == 3      \* largest max_retries tried (3 is the constructor default)
MaxCancels == 1      \* cancel_processing() calls per behaviour
MaxCells == 3        \* most cells of a translation request
MaxChunk == 2        \* largest batch_settings.batch_size tried
MaxContent == 2      \* most cells file_service.extract_content returns
MaxPatterns == 2
MaxValidators == 2
MaxSample == 2
MaxStarts == 2
BackoffRetries == 4     \* most custom patterns of a ContentFilters

\* ------------------------------------------------------- program constants
DefaultMaxRetries == 3   \* BatchProcessor.__init__(..., max_retries: int = 3)
DefaultRetryAttempts == 3   \* BatchTranslationSettings.retry_attempts: int = 3
BaseBatchSize == 50
RateLimitWait == 5            \* seconds
SampleLimit == 10
MinConfidence == 70          \* 0.7, confidences being in hundredths         \* calculate_optimal_batch_size: base_batch_size = 50

\* --------------------------------------------------------------- helpers
\* Python's None
NoneValue == "<None>"

Min(a, b) == IF a < b THEN a ELSE b

SeqsUpTo(S, n) == UNION {[1..k -> S] : k \in 1..n}

\* ------------------------------------------------------- texts and provider
\* The texts a task may hold: two translatable texts and a blank one.
Texts == {"a", "b", ""}

\* deepl_client.py:105  `text and text.strip()` is false for a blank text
IsBlank(t) == t = ""

\* The vendor library's translation of one non-blank text (upper-casing provider)
VendorTranslate(t) == CASE t = "a" -> "A" [] t = "b" -> "B" [] OTHER -> t

\* DeepLClient.translate_batch on success: blank texts keep their position
\* untouched, the others are replaced by the vendor's result (lines 100-125)
translate_batch(texts) ==
    [i \in 1..Len(texts) |->
        IF IsBlank(texts[i]) THEN texts[i] ELSE VendorTranslate(texts[i])]

\* What a failing provider call raises: an Exception whose message names a
\* rate limit (line 111) or any other Exception
ProviderErrors == {"error", "rate limit"}

\* ------------------------------------------------------------------- state
VARIABLES
    tasks,             \* TranslationManager.tasks: sequence of TranslationTask
    batch_size,        \* BatchProcessor.batch_size
    max_retries,       \* BatchProcessor.max_retries
    cancel_requested,  \* BatchProcessor.cancel_requested
    current_task,      \* TranslationManager.current_task (0 = None, else index)
    thread,            \* TranslationManager.thread: "none" | "alive" | "dead"
    pc,                \* position of the worker thread
    task_idx,          \* index of the task the `for task in self.tasks` loop is at
    translated_texts,  \* process_texts local
    batch_start,       \* process_texts local (0-based, as in the code)
    processed_count,   \* process_texts local
    attempt,           \* _translate_batch_with_retries loop variable
    batch_results,     \* value returned by _translate_batch_with_retries
    success,           \* _process_tasks local (line 238)
    completion,        \* argument of completion_callback: "none" | TRUE | FALSE
    \* history of the run (observations, never read by the program)
    slice_calls,       \* provider calls started for the current slice
    slice_fails,       \* provider calls that raised for the current slice
    outcomes,          \* per slice of the current process_texts run, how it ended
    calls_total,       \* provider calls started since the worker was started
    cancel_in_pt,      \* cancel() was called during the current process_texts run
    cancel_in_run,     \* cancel_processing() was called while the worker ran
    cancels,           \* number of cancel_processing() calls so far
    progress_log       \* history: the (current, total) arguments of the progress callback

bpvars == <<tasks, batch_size, max_retries, cancel_requested, current_task, thread,
            pc, task_idx, translated_texts, batch_start, processed_count, attempt,
            batch_results, success, completion, slice_calls, slice_fails, outcomes,
            calls_total, cancel_in_pt, cancel_in_run, cancels, progress_log>>

VARIABLES
    cells,             \* request.cells
    batch_settings,    \* request.batch_settings
    language_settings, \* request.language_settings
    content_filters,   \* request.content_filters (is_none when missing)
    upc,               \* position inside TranslateTextUseCase.execute
    sheets_data,       \* execute local: the cells grouped by sheet, in dict order
    sheet_no,          \* index of the sheet the `for sheet_name, cells` loop is at
    chunk_start,       \* _translate_sheet loop variable i (0-based)
    results,           \* _translate_sheet local
    successful,        \* _translate_sheet local
    failed,            \* _translate_sheet local
    skipped,           \* _translate_sheet local
    sheet_results,     \* execute local: list of SheetTranslationResult
    total_successful,  \* execute local
    total_failed,      \* execute local
    total_skipped,     \* execute local
    total_api_calls,   \* execute local
    response,          \* the TranslationResponse returned (NoResponse before)
    service_calls,     \* history: translation_service.translate_batch calls made
    chunk_log          \* history: one entry per _translate_batch call that returned

ucvars == <<cells, batch_settings, language_settings, content_filters, upc,
            sheets_data, sheet_no, chunk_start, results, successful, failed,
            skipped, sheet_results, total_successful, total_failed, total_skipped,
            total_api_calls, response, service_calls, chunk_log>>

\* ProcessFileUseCase.execute (application/usecases/process_file_usecase.py)
VARIABLES
    request,            \* the TranslationRequest: cells, sheet_names, filters, languages
    output_path,        \* execute argument (NoneValue when not given)
    validation_report,  \* what validate_usecase.execute returns
    file_info,          \* what file_service.analyze_file returns
    backup_raises,      \* whether file_service.create_backup raises
    content,            \* what file_service.extract_content returns
    ppc,                \* position inside ProcessFileUseCase.execute
    translation_response, \* execute local (line 93), NoFileResponse before
    file_response,      \* the TranslationResponse execute returned
    \* history of the run
    stage_log,          \* the stages entered, in order
    translate_status,   \* the status translate_usecase.execute returned
    apply_outcome,      \* what file_repository.apply_translations did
    backup_failed       \* create_backup raised in this run

pfvars == <<request, output_path, validation_report, file_info, backup_raises,
            content, ppc, translation_response, file_response, stage_log,
            translate_status, apply_outcome, backup_failed>>

\* the helper functions: ExcelUtils.calculate_optimal_batch_size (excel/utils.py)
\* and the two skip decisions (_should_skip_text, should_ignore_text)
VARIABLES
    opt_args,           \* arguments of calculate_optimal_batch_size
    opt_result,         \* what it returned ([returned |-> FALSE, ..] before the call)
    skip_args,          \* a text and the ContentFilters it is judged by
    skip_result         \* the two decisions taken for it (NoneValue before)

utvars == <<opt_args, opt_result, skip_args, skip_result>>

\* ValidateRequestUseCase.execute (application/usecases/validate_request_usecase.py)
VARIABLES
    vrequest,           \* the TranslationRequest under validation, with the file's facts
    validators,         \* self.validators: what each custom validator does
    report,             \* the ValidationReport: its results, in order
    vpc,                \* position inside ValidateRequestUseCase.execute
    vidx,               \* index of the validator the loop of line 46 is at
    ran,                \* history: the validators called so far, in order
    loop_entry,         \* history: the report's results when the loop of line 46 began
    runs,               \* history: calls of execute begun on this request
    first_run           \* history: the request and the results of the first call

vrvars == <<vrequest, validators, report, vpc, vidx, ran, loop_entry, runs, first_run>>

\* step 6 of ProcessFileUseCase.execute with DetectLanguageUseCase
\* (application/usecases/detect_language_usecase.py)
VARIABLES
    detections,         \* what the detection service answers for each cell's text
    detect_calls,       \* history: calls of detect_most_common_language so far
    source_before       \* history: the source language when step 6 was reached

dlvars == <<detections, detect_calls, source_before>>

\* what is observed of a TranslationManager across its runs (history, never
\* read by the program) and the sleep its worker is in
VARIABLES
    starts,             \* worker threads started so far (line 232)
    workers_alive,      \* worker threads started and not yet ended
    refused,            \* a start_processing call returned at line 225
    prev_cancelled,     \* the previous run was cancelled while it ran
    wait                \* the sleep of lines 107-112 now in progress, if any

mhvars == <<starts, workers_alive, refused, prev_cancelled, wait>>

\* ProcessFileUseCase._apply_translations_to_file on the response of
\* TranslateTextUseCase.execute
VARIABLES
    translation_data,   \* what is handed to file_repository.apply_translations
    apc                 \* "none" until the data is prepared, then "prepared"

apvars == <<translation_data, apc>>

vars == <<bpvars, ucvars, pfvars, utvars, vrvars, dlvars, mhvars, apvars>>

\* TranslationTask.__init__ (lines 167-175)
NewTask(texts) ==
    [texts |-> texts, translated_texts |-> <<>>, status |-> "pending", progress |-> 0]

\* the worker is inside the body of process_texts, past its initialisation
InProcessTexts == pc \in {"slice_check", "attempt", "in_call", "backoff", "store"}

\* line 54-55: the slice of the current iteration
BatchEnd(start, size, total) == Min(start + size, total)
BatchTexts(texts, start, size) ==
    SubSeq(texts, start + 1, BatchEnd(start, size, Len(texts)))

\* a store that forgets the slice offset: translated_texts[i] = result
StoreBatch_NoOffset(out, start, res) ==
    [k \in 1..Len(out) |-> IF k <= Len(res) THEN res[k] ELSE out[k]]

\* lines 63-64: translated_texts[batch_start + i] = result
StoreBatch(out, start, res) ==
    [k \in 1..Len(out) |->
        IF k > start /\ k <= start + Len(res) THEN res[k - start] ELSE out[k]]

\* line 46: translated_texts = [''] * total_texts
InitialOutput(texts) == [k \in 1..Len(texts) |-> ""]

\* a retry loop that runs one attempt too many
HasAttempt_OneMore(a, maxr) == a <= maxr

\* line 94: `for attempt in range(self.max_retries)` has another iteration
HasAttempt(a, maxr) == a < maxr

\* a retry loop that never looks at the cancellation flag
RetryCancelled_Never(flag) == FALSE

\* line 96: `if self.cancel_requested` ends the retry loop before a provider call
RetryCancelled(flag) == flag

\* an except clause that only catches rate-limit errors
Caught_RateLimitOnly(e) == e = "rate limit"

\* line 101: `except Exception` catches whatever the provider call raises
Caught(e) == e \in ProviderErrors

\* line 105: `if attempt < self.max_retries - 1` (a backoff follows the failure)
BacksOff(a, maxr) == a < maxr - 1

\* a backoff that grows by one second per attempt
BackoffSeconds_Linear(a) == a + 1

\* line 107: wait_time = (2 ** attempt) * 1.0
BackoffSeconds(a) == 2 ^ a

\* lines 111-112: "rate limit" in str(e).lower() adds wait_for_rate_limit(5.0),
\* which sleeps for that long (deepl_client.py lines 148-150)
RateLimitPause(e) == IF e = "rate limit" THEN RateLimitWait ELSE 0

NoWait == [after_attempt |-> -1, seconds |-> 0, pause |-> 0, error |-> ""]

\* a start_processing that never finds a worker running
AlreadyRunning_Never(th) == FALSE

\* line 223: self.thread and self.thread.is_alive()
AlreadyRunning(th) == th = "alive"

\* TranslationTask.update_progress (line 179)
\* a count that advances by the configured batch size, whatever the slice holds
ProcessedAfter_FullBatch(count, batch, size) == count + size

\* process_texts line 66: processed_count += len(batch_texts)
ProcessedAfter(count, batch, size) == count + Len(batch)

ProgressPercent(current, total) == IF total > 0 THEN (current * 100) \div total ELSE 0

\* ------------------------------------------------------------- GUI thread
\* TranslationManager.start_processing (lines 223-232), called once by the GUI
start_processing ==
    /\ thread = "none"
    /\ thread' = "alive"
    /\ pc' = "task_loop"
    /\ task_idx' = 1
    /\ success' = TRUE
    /\ UNCHANGED <<tasks, batch_size, max_retries, cancel_requested, current_task,
                   translated_texts, batch_start, processed_count, attempt,
                   batch_results, completion, slice_calls, slice_fails, outcomes,
                   calls_total, cancel_in_pt, cancel_in_run, cancels, progress_log>>
    /\ UNCHANGED <<ucvars, pfvars, utvars, vrvars, dlvars, apvars>>
    /\ starts' = starts + 1
    /\ workers_alive' = workers_alive + 1
    /\ UNCHANGED <<refused, prev_cancelled, wait>>


\* TranslationManager.cancel_processing (lines 275-279) with BatchProcessor.cancel
cancel_processing ==
    /\ cancels < MaxCancels
    /\ cancels' = cancels + 1
    /\ cancel_requested' = TRUE
    /\ tasks' = IF current_task # 0
                THEN [tasks EXCEPT ![current_task].status = "cancelled"]
                ELSE tasks
    /\ cancel_in_pt' = (cancel_in_pt \/ InProcessTexts)
    /\ cancel_in_run' = (cancel_in_run \/ thread = "alive")
    /\ UNCHANGED <<batch_size, max_retries, current_task, thread, pc, task_idx,
                   translated_texts, batch_start, processed_count, attempt,
                   batch_results, success, completion, slice_calls, slice_fails, outcomes,
                   calls_total, progress_log>>
    /\ UNCHANGED <<ucvars, pfvars, utvars, vrvars, dlvars, mhvars, apvars>>

\* TranslationManager.start_processing (lines 223-232) called again on the same
\* manager, from the same controlling thread: it returns at once while the
\* worker is alive, and starts a new worker when the previous one has ended
start_processing_again ==
    /\ thread # "none"
    /\ IF AlreadyRunning(thread)
       THEN /\ ~refused
            /\ refused' = TRUE
            /\ UNCHANGED <<thread, pc, task_idx, success, completion, calls_total,
                           cancel_in_run, starts, workers_alive, prev_cancelled>>
       ELSE /\ starts < MaxStarts
            /\ thread' = "alive"
            /\ pc' = "task_loop"
            /\ task_idx' = 1
            /\ success' = TRUE
            /\ completion' = "none"
            /\ calls_total' = 0
            /\ cancel_in_run' = FALSE
            /\ prev_cancelled' = cancel_in_run
            /\ starts' = starts + 1
            /\ workers_alive' = workers_alive + 1
            /\ UNCHANGED refused
    /\ UNCHANGED <<tasks, batch_size, max_retries, cancel_requested, current_task,
                   translated_texts, batch_start, processed_count, attempt,
                   batch_results, slice_calls, slice_fails, outcomes, cancel_in_pt,
                   cancels, progress_log, wait>>
    /\ UNCHANGED <<ucvars, pfvars, utvars, vrvars, dlvars, apvars>>

\* ---------------------------------------------------------- worker thread
\* _process_tasks, loop head (lines 240-245): next task, is_cancelled() check
process_tasks_next ==
    /\ pc = "task_loop"
    /\ IF task_idx > Len(tasks) \/ cancel_requested
       THEN /\ pc' = "finish"
            /\ UNCHANGED <<tasks, current_task>>
       ELSE /\ current_task' = task_idx
            /\ tasks' = [tasks EXCEPT ![task_idx].status = "processing"]
            /\ pc' = "pt_begin"
    /\ UNCHANGED <<batch_size, max_retries, cancel_requested, thread, task_idx,
                   translated_texts, batch_start, processed_count, attempt,
                   batch_results, success, completion, slice_calls, slice_fails, outcomes,
                   calls_total, cancel_in_pt, cancel_in_run, cancels, progress_log>>
    /\ UNCHANGED <<ucvars, pfvars, utvars, vrvars, dlvars, mhvars, apvars>>

\* process_texts, initialisation (lines 41-47)
process_texts_begin ==
    /\ pc = "pt_begin"
    /\ IF Len(tasks[task_idx].texts) = 0
       THEN /\ translated_texts' = <<>>
            /\ pc' = "pt_return"
            /\ UNCHANGED cancel_requested
       ELSE /\ cancel_requested' = FALSE
            /\ translated_texts' = InitialOutput(tasks[task_idx].texts)
            /\ pc' = "slice_check"
    /\ processed_count' = 0
    /\ batch_start' = 0
    /\ outcomes' = <<>>
    /\ cancel_in_pt' = FALSE
    /\ progress_log' = <<>>
    /\ UNCHANGED <<tasks, batch_size, max_retries, current_task, thread, task_idx,
                   attempt, batch_results, success, completion, slice_calls, slice_fails,
                   calls_total, cancel_in_run, cancels>>
    /\ UNCHANGED <<ucvars, pfvars, utvars, vrvars, dlvars, mhvars, apvars>>

\* process_texts, loop head (lines 50-55): range exhausted, cancelled, or a slice
process_texts_slice ==
    /\ pc = "slice_check"
    /\ IF batch_start >= Len(tasks[task_idx].texts) \/ cancel_requested
       THEN pc' = "pt_return"
       ELSE pc' = "attempt"
    /\ attempt' = 0
    /\ slice_calls' = 0
    /\ slice_fails' = 0
    /\ UNCHANGED <<tasks, batch_size, max_retries, cancel_requested, current_task,
                   thread, task_idx, translated_texts, batch_start, processed_count,
                   batch_results, success, completion, outcomes, calls_total, cancel_in_pt,
                   cancel_in_run, cancels, progress_log>>
    /\ UNCHANGED <<ucvars, pfvars, utvars, vrvars, dlvars, mhvars, apvars>>

\* _translate_batch_with_retries, lines 94-99: the loop is exhausted (114-116),
\* the run is cancelled (96-97), or the provider call is started (99)
retry_attempt ==
    /\ pc = "attempt"
    /\ LET texts == BatchTexts(tasks[task_idx].texts, batch_start, batch_size) IN
       IF ~HasAttempt(attempt, max_retries)
       THEN /\ batch_results' = texts
            /\ outcomes' = Append(outcomes, "exhausted")
            /\ pc' = "store"
            /\ UNCHANGED <<slice_calls, calls_total>>
       ELSE IF RetryCancelled(cancel_requested)
       THEN /\ batch_results' = texts
            /\ outcomes' = Append(outcomes, "cancelled")
            /\ pc' = "store"
            /\ UNCHANGED <<slice_calls, calls_total>>
       ELSE /\ pc' = "in_call"
            /\ slice_calls' = slice_calls + 1
            /\ calls_total' = calls_total + 1
            /\ UNCHANGED <<batch_results, outcomes>>
    /\ UNCHANGED <<tasks, batch_size, max_retries, cancel_requested, current_task,
                   thread, task_idx, translated_texts, batch_start, processed_count,
                   attempt, success, completion, slice_fails, cancel_in_pt, cancel_in_run,
                   cancels, progress_log>>
    /\ UNCHANGED <<ucvars, pfvars, utvars, vrvars, dlvars, mhvars, apvars>>

\* line 99: deepl_client.translate_batch returns
provider_returns ==
    /\ pc = "in_call"
    /\ batch_results' =
          translate_batch(BatchTexts(tasks[task_idx].texts, batch_start, batch_size))
    /\ outcomes' = Append(outcomes, "translated")
    /\ pc' = "store"
    /\ UNCHANGED <<tasks, batch_size, max_retries, cancel_requested, current_task,
                   thread, task_idx, translated_texts, batch_start, processed_count,
                   attempt, success, completion, slice_calls, slice_fails, calls_total,
                   cancel_in_pt, cancel_in_run, cancels, progress_log>>
    /\ UNCHANGED <<ucvars, pfvars, utvars, vrvars, dlvars, mhvars, apvars>>

\* deepl_client.translate_batch raises: caught by the retry loop (lines 101-105),
\* otherwise it leaves process_texts and reaches _process_tasks (lines 264-268)
provider_raises ==
    /\ pc = "in_call"
    /\ \E e \in ProviderErrors :
         IF Caught(e)
         THEN /\ slice_fails' = slice_fails + 1
              /\ attempt' = attempt + 1
              /\ pc' = IF BacksOff(attempt, max_retries) THEN "backoff" ELSE "attempt"
              /\ wait' = IF BacksOff(attempt, max_retries)
                         THEN [after_attempt |-> attempt,
                               seconds |-> BackoffSeconds(attempt),
                               pause |-> RateLimitPause(e), error |-> e]
                         ELSE NoWait
              /\ UNCHANGED <<tasks, task_idx, success>>
         ELSE /\ tasks' = [tasks EXCEPT ![task_idx].status = "failed"]
              /\ success' = FALSE
              /\ task_idx' = task_idx + 1
              /\ pc' = "task_loop"
              /\ UNCHANGED <<slice_fails, attempt, wait>>
    /\ UNCHANGED <<batch_size, max_retries, cancel_requested, current_task,
                   thread, translated_texts, batch_start, processed_count,
                   batch_results, completion, slice_calls, outcomes, calls_total,
                   cancel_in_pt, cancel_in_run, cancels, progress_log>>
    /\ UNCHANGED <<ucvars, pfvars, utvars, vrvars, dlvars, apvars>>
    /\ UNCHANGED <<starts, workers_alive, refused, prev_cancelled>>


\* lines 106-112: time.sleep of the backoff ends
backoff_done ==
    /\ pc = "backoff"
    /\ pc' = "attempt"
    /\ UNCHANGED <<tasks, batch_size, max_retries, cancel_requested, current_task,
                   thread, task_idx, translated_texts, batch_start, processed_count,
                   attempt, batch_results, success, completion, slice_calls, slice_fails,
                   outcomes, calls_total, cancel_in_pt, cancel_in_run, cancels, progress_log>>
    /\ UNCHANGED <<ucvars, pfvars, utvars, vrvars, dlvars, apvars>>
    /\ wait' = NoWait
    /\ UNCHANGED <<starts, workers_alive, refused, prev_cancelled>>


\* process_texts, lines 63-74: store the slice, count it, report progress
\* (task_progress -> TranslationTask.update_progress), move to the next slice
store_results ==
    /\ pc = "store"
    /\ LET texts == tasks[task_idx].texts
           count == ProcessedAfter(processed_count,
                                   BatchTexts(texts, batch_start, batch_size), batch_size)
       IN
       /\ translated_texts' = StoreBatch(translated_texts, batch_start, batch_results)
       /\ processed_count' = count
       /\ tasks' = [tasks EXCEPT ![task_idx].progress =
                        ProgressPercent(count, Len(texts))]
       /\ progress_log' = Append(progress_log, <<count, Len(texts)>>)
    /\ batch_start' = batch_start + batch_size
    /\ pc' = "slice_check"
    /\ UNCHANGED <<batch_size, max_retries, cancel_requested, current_task, thread,
                   task_idx, attempt, batch_results, success, completion, slice_calls,
                   slice_fails, outcomes, calls_total, cancel_in_pt, cancel_in_run,
                   cancels>>
    /\ UNCHANGED <<ucvars, pfvars, utvars, vrvars, dlvars, mhvars, apvars>>

\* process_texts returns (line 76) and TranslationTask.mark_completed (181-185)
mark_completed ==
    /\ pc = "pt_return"
    /\ tasks' = [tasks EXCEPT ![task_idx].translated_texts = translated_texts,
                              ![task_idx].status = "completed",
                              ![task_idx].progress = 100]
    /\ task_idx' = task_idx + 1
    /\ pc' = "task_loop"
    /\ UNCHANGED <<batch_size, max_retries, cancel_requested, current_task, thread,
                   translated_texts, batch_start, processed_count, attempt,
                   batch_results, success, completion, slice_calls, slice_fails, outcomes,
                   calls_total, cancel_in_pt, cancel_in_run, cancels, progress_log>>
    /\ UNCHANGED <<ucvars, pfvars, utvars, vrvars, dlvars, mhvars, apvars>>

\* _process_tasks, lines 270-273: the worker ends
process_tasks_finish ==
    /\ pc = "finish"
    /\ current_task' = 0
    /\ completion' = (success /\ ~cancel_requested)
    /\ thread' = "dead"
    /\ pc' = "done"
    /\ UNCHANGED <<tasks, batch_size, max_retries, cancel_requested, task_idx,
                   translated_texts, batch_start, processed_count, attempt,
                   batch_results, success, slice_calls, slice_fails, outcomes,
                   calls_total, cancel_in_pt, cancel_in_run, cancels, progress_log>>
    /\ UNCHANGED <<ucvars, pfvars, utvars, vrvars, dlvars, apvars>>
    /\ workers_alive' = workers_alive - 1
    /\ UNCHANGED <<starts, refused, prev_cancelled, wait>>


\* ================================================================ part 2
\* application/usecases/translate_text_usecase.py

\* The cell texts of a request (the texts of the spec's first scenario)
CellTexts == {"Hello", "[skip this]", "", "2024-01-01"}
SheetNames == {"Sheet1", "Sheet2"}

\* what the regular expressions of _should_skip_text match among CellTexts
IsBlankText(t) == t = ""                     \* line 258: not text or not text.strip()
HasBracketSpan(t) == t \in {"[skip this]"}   \* line 262-263: '[' .. ']'
HasJapaneseQuotes(t) == t \in {"<<quoted>>"} \* line 267-268: a span in Japanese quotes
HasUrl(t) == t \in {"https://x.io"}          \* line 273-274
HasEmail(t) == t \in {"a@b.co"}              \* line 279-280
IsNumbersOnly(t) == t \in {"2024-01-01"}     \* line 285: digits and . , - + ( ) % $

\* the custom patterns tried: one that matches "Hello" and "Hello!", and one
\* that re.search cannot compile
CustomPatterns == {"Hel+o", "("}
PatternCompiles(pat) == pat # "("
PatternMatches(pat, t) == pat = "Hel+o" /\ t \in {"Hello", "Hello!"}

\* ContentFilters with its dataclass defaults (translation_request.py:43-47)
DefaultFilters ==
    [is_none |-> FALSE, ignore_square_brackets |-> TRUE, ignore_japanese_quotes |-> TRUE,
     ignore_urls |-> TRUE, ignore_emails |-> TRUE, ignore_numbers_only |-> TRUE,
     custom_patterns |-> <<>>]

\* ContentFilters with every toggle switched off
NoFilters ==
    [is_none |-> FALSE, ignore_square_brackets |-> FALSE, ignore_japanese_quotes |-> FALSE,
     ignore_urls |-> FALSE, ignore_emails |-> FALSE, ignore_numbers_only |-> FALSE,
     custom_patterns |-> <<>>]

\* request.content_filters is None (validate_request_usecase.py:82 tests for it)
MissingFilters ==
    [is_none |-> TRUE, ignore_square_brackets |-> FALSE, ignore_japanese_quotes |-> FALSE,
     ignore_urls |-> FALSE, ignore_emails |-> FALSE, ignore_numbers_only |-> FALSE,
     custom_patterns |-> <<>>]

\* _should_skip_text (lines 254-288): "skip", "keep", or "raise" when reading a
\* toggle of a missing filter object raises AttributeError
should_skip_text(text, f) ==
    IF IsBlankText(text) THEN "skip"
    ELSE IF f.is_none THEN "raise"
    ELSE IF f.ignore_square_brackets /\ HasBracketSpan(text) THEN "skip"
    ELSE IF f.ignore_japanese_quotes /\ HasJapaneseQuotes(text) THEN "skip"
    ELSE IF f.ignore_urls /\ HasUrl(text) THEN "skip"
    ELSE IF f.ignore_emails /\ HasEmail(text) THEN "skip"
    ELSE IF f.ignore_numbers_only /\ IsNumbersOnly(text) THEN "skip"
    ELSE "keep"

\* the translation service on success: text.upper() of each text
ServiceTranslate(t) ==
    CASE t = "Hello" -> "HELLO"
      [] t = "[skip this]" -> "[SKIP THIS]"
      [] OTHER -> t

\* str(e) of the exception a failing translate_batch raises
\* (deepl_translator.py:90, google_translator.py:113)
ServiceErrors == {"DeepL batch translation failed"}

\* CellTranslationResult.is_successful (translation_response.py:33-36)
is_successful(r) == r.error_message = NoneValue /\ r.translated_text # NoneValue

\* _group_cells_by_sheet, line 132: the cell's sheet name, 'Sheet1' by default
SheetNameOf(cell) ==
    IF cell.sheet_name = NoneValue THEN "Sheet1" ELSE cell.sheet_name

\* _group_cells_by_sheet (lines 128-136): buckets in order of first appearance
RECURSIVE GroupCells(_, _)
GroupCells(cs, acc) ==
    IF cs = <<>> THEN acc
    ELSE LET c == Head(cs)
             hit == {k \in 1..Len(acc) : acc[k].sheet_name = SheetNameOf(c)}
         IN  GroupCells(Tail(cs),
                IF hit = {}
                THEN Append(acc, [sheet_name |-> SheetNameOf(c), cells |-> <<c>>])
                ELSE LET k == CHOOSE k \in hit : TRUE
                     IN  [acc EXCEPT ![k].cells = Append(@, c)])
\* a grouping that opens a new bucket for every cell
group_cells_by_sheet_PerCell(cs) ==
    [k \in 1..Len(cs) |-> [sheet_name |-> SheetNameOf(cs[k]), cells |-> <<cs[k]>>]]

group_cells_by_sheet(cs) == GroupCells(cs, <<>>)

\* lines 193-201: the pass-through result of a skipped cell
SkippedResult(cell) ==
    [original_text |-> cell.text, translated_text |-> cell.text,
     row |-> cell.row, column |-> cell.column,
     source_language_detected |-> NoneValue, error_message |-> NoneValue]

\* lines 224-232: the result of a translated cell
TranslatedResult(cell, ls) ==
    [original_text |-> cell.text, translated_text |-> ServiceTranslate(cell.text),
     row |-> cell.row, column |-> cell.column,
     source_language_detected |-> ls.source_language, error_message |-> NoneValue]

\* an error result that drops the exception text
ErrorResult_NoMessage(cell, e) ==
    [original_text |-> cell.text, translated_text |-> "",
     row |-> cell.row, column |-> cell.column,
     source_language_detected |-> NoneValue, error_message |-> NoneValue]

\* lines 240-249: the result of a cell whose batch call raised e
ErrorResult(cell, e) ==
    [original_text |-> cell.text, translated_text |-> "",
     row |-> cell.row, column |-> cell.column,
     source_language_detected |-> NoneValue, error_message |-> e]

MapSeq(F(_), q) == [k \in 1..Len(q) |-> F(q[k])]

\* _translate_batch, loop of lines 190-206: the cells passed through
SkippedOf(batch, f) == SelectSeq(batch, LAMBDA c : should_skip_text(c.text, f) = "skip")
\* cell_mapping: the cells sent to the service
CellMapping(batch, f) == SelectSeq(batch, LAMBDA c : should_skip_text(c.text, f) = "keep")
\* _should_skip_text raises for a cell of the batch (outside the try of line 211)
FilterRaises(batch, f) ==
    \E k \in 1..Len(batch) : should_skip_text(batch[k].text, f) = "raise"

\* what the service call of a batch may do: nothing to call, return, or raise e
ServiceOutcomes(batch, f) ==
    IF CellMapping(batch, f) = <<>> THEN {"no call"} ELSE {"ok"} \cup ServiceErrors

\* _translate_batch (lines 181-252): the skipped results first, then the results
\* of the service call appended after them
translate_batch_results(batch, ls, f, outcome) ==
    MapSeq(SkippedResult, SkippedOf(batch, f)) \o
      (IF outcome = "no call" THEN <<>>
       ELSE IF outcome = "ok"
       THEN MapSeq(LAMBDA c : TranslatedResult(c, ls), CellMapping(batch, f))
       ELSE MapSeq(LAMBDA c : ErrorResult(c, outcome), CellMapping(batch, f)))

\* lines 157-162: how _translate_sheet counts one result
CountsAs(r) ==
    IF is_successful(r) THEN "successful"
    ELSE IF r.error_message \notin {NoneValue, ""} THEN "failed"
    ELSE "skipped"
CountOf(rs, kind) == Cardinality({k \in 1..Len(rs) : CountsAs(rs[k]) = kind})

\* the cells of the sheet being translated
SheetCells == sheets_data[sheet_no].cells

\* a status derivation that knows no partial success
StatusOf_NoPartial(succ, fail) ==
    IF fail = 0 /\ succ > 0 THEN "SUCCESS" ELSE "FAILED"

\* lines 82-87: the overall status
StatusOf(succ, fail) ==
    IF fail = 0 /\ succ > 0 THEN "SUCCESS"
    ELSE IF succ > 0 THEN "PARTIAL_SUCCESS"
    ELSE "FAILED"

\* execute has not returned yet
NoResponse ==
    [status |-> NoneValue, sheet_results |-> <<>>,
     metrics |-> [total_sheets |-> 0, total_cells |-> 0, successful_translations |-> 0,
                  failed_translations |-> 0, skipped_cells |-> 0, api_calls_made |-> 0],
     errors |-> <<>>, warnings |-> <<>>]

\* a failure response that keeps the sheets finished before the exception
FailedResponse_KeepsPartial ==
    [status |-> "FAILED", sheet_results |-> sheet_results,
     metrics |-> [total_sheets |-> Len(sheet_results), total_cells |-> Len(cells),
                  successful_translations |-> total_successful,
                  failed_translations |-> total_failed, skipped_cells |-> total_skipped,
                  api_calls_made |-> total_api_calls],
     errors |-> <<>>, warnings |-> <<>>]

\* execute lines 105-126: the response built by the except handler
FailedResponse ==
    [status |-> "FAILED", sheet_results |-> <<>>,
     metrics |-> [total_sheets |-> 0, total_cells |-> 0, successful_translations |-> 0,
                  failed_translations |-> 0, skipped_cells |-> 0, api_calls_made |-> 0],
     errors |-> <<>>, warnings |-> <<>>]

\* range(0, len(cells), batch_size) of line 149 raises ValueError for a zero step
RangeRaises(bs) == bs = 0

\* line 59: len(cells) // batch_size raises ZeroDivisionError
ApiEstimateRaises(bs) == bs = 0

\* execute, lines 30-43: group the cells by sheet
execute_begin ==
    /\ upc = "start"
    /\ sheets_data' = group_cells_by_sheet(cells)
    /\ sheet_no' = 1
    /\ upc' = "sheet_loop"
    /\ UNCHANGED <<cells, batch_settings, language_settings, content_filters,
                   chunk_start, results, successful, failed, skipped, sheet_results,
                   total_successful, total_failed, total_skipped, total_api_calls,
                   response, service_calls, chunk_log>>
    /\ UNCHANGED <<bpvars, pfvars, utvars, vrvars, dlvars, mhvars, apvars>>

\* execute line 45-48 and _translate_sheet lines 141-145: enter the next sheet
translate_sheet_begin ==
    /\ upc = "sheet_loop"
    /\ sheet_no <= Len(sheets_data)
    /\ results' = <<>>
    /\ successful' = 0
    /\ failed' = 0
    /\ skipped' = 0
    /\ chunk_start' = 0
    /\ upc' = "chunk_loop"
    /\ UNCHANGED <<cells, batch_settings, language_settings, content_filters,
                   sheets_data, sheet_no, sheet_results, total_successful,
                   total_failed, total_skipped, total_api_calls, response,
                   service_calls, chunk_log>>
    /\ UNCHANGED <<bpvars, pfvars, utvars, vrvars, dlvars, mhvars, apvars>>

\* _translate_sheet, one iteration of the loop of lines 149-162 with its
\* _translate_batch call, or the handler of lines 164-166 when the call raises
translate_sheet_chunk ==
    /\ upc = "chunk_loop"
    /\ chunk_start < Len(SheetCells)
    /\ LET batch == SubSeq(SheetCells, chunk_start + 1,
                           Min(chunk_start + batch_settings.batch_size, Len(SheetCells)))
       IN  IF RangeRaises(batch_settings.batch_size) \/ FilterRaises(batch, content_filters)
           THEN /\ failed' = Len(SheetCells)
                /\ upc' = "sheet_end"
                /\ UNCHANGED <<results, successful, skipped, chunk_start,
                               service_calls, chunk_log>>
           ELSE \E outcome \in ServiceOutcomes(batch, content_filters) :
                LET rs == translate_batch_results(batch, language_settings,
                                                  content_filters, outcome)
                IN  /\ results' = results \o rs
                    /\ successful' = successful + CountOf(rs, "successful")
                    /\ failed' = failed + CountOf(rs, "failed")
                    /\ skipped' = skipped + CountOf(rs, "skipped")
                    /\ service_calls' =
                          service_calls + (IF outcome = "no call" THEN 0 ELSE 1)
                    /\ chunk_log' = Append(chunk_log,
                          [sheet |-> sheet_no, start |-> chunk_start, batch |-> batch,
                           outcome |-> outcome,
                           calls |-> IF outcome = "no call" THEN 0 ELSE 1])
                    /\ chunk_start' = chunk_start + batch_settings.batch_size
                    /\ upc' = "chunk_loop"
    /\ UNCHANGED <<cells, batch_settings, language_settings, content_filters,
                   sheets_data, sheet_no, sheet_results, total_successful,
                   total_failed, total_skipped, total_api_calls, response>>
    /\ UNCHANGED <<bpvars, pfvars, utvars, vrvars, dlvars, mhvars, apvars>>

\* _translate_sheet lines 168-179 (the SheetTranslationResult) and execute
\* lines 53-59 (the running totals); when line 59 raises, the handler of lines
\* 105-126 returns the failed response
translate_sheet_end ==
    /\ \/ upc = "sheet_end"
       \/ upc = "chunk_loop" /\ chunk_start >= Len(SheetCells)
    /\ sheet_results' = Append(sheet_results,
          [sheet_name |-> sheets_data[sheet_no].sheet_name,
           total_cells |-> Len(SheetCells),
           successful_translations |-> successful,
           failed_translations |-> failed,
           skipped_cells |-> skipped,
           cell_results |-> results])
    /\ total_successful' = total_successful + successful
    /\ total_failed' = total_failed + failed
    /\ total_skipped' = total_skipped + skipped
    /\ IF ApiEstimateRaises(batch_settings.batch_size)
       THEN /\ response' = FailedResponse
            /\ upc' = "failed"
            /\ UNCHANGED <<total_api_calls, sheet_no>>
       ELSE /\ total_api_calls' =
                  total_api_calls + (Len(SheetCells) \div batch_settings.batch_size) + 1
            /\ sheet_no' = sheet_no + 1
            /\ upc' = "sheet_loop"
            /\ UNCHANGED response
    /\ UNCHANGED <<cells, batch_settings, language_settings, content_filters,
                   sheets_data, chunk_start, results, successful, failed, skipped,
                   service_calls, chunk_log>>
    /\ UNCHANGED <<bpvars, pfvars, utvars, vrvars, dlvars, mhvars, apvars>>

\* execute lines 61-103: metrics, status and the response
execute_finish ==
    /\ upc = "sheet_loop"
    /\ sheet_no > Len(sheets_data)
    /\ response' =
          [status |-> StatusOf(total_successful, total_failed),
           sheet_results |-> sheet_results,
           metrics |-> [total_sheets |-> Len(sheets_data),
                        total_cells |-> Len(cells),
                        successful_translations |-> total_successful,
                        failed_translations |-> total_failed,
                        skipped_cells |-> total_skipped,
                        api_calls_made |-> total_api_calls],
           errors |-> <<>>,
           warnings |-> <<>>]
    /\ upc' = "done"
    /\ UNCHANGED <<cells, batch_settings, language_settings, content_filters,
                   sheets_data, sheet_no, chunk_start, results, successful, failed,
                   skipped, sheet_results, total_successful, total_failed,
                   total_skipped, total_api_calls, service_calls, chunk_log>>
    /\ UNCHANGED <<bpvars, pfvars, utvars, vrvars, dlvars, mhvars, apvars>>

\* ================================================================ part 3
\* application/usecases/process_file_usecase.py

\* the stages of execute, in the order of the code (steps 1-9)
StageOrder ==
    <<"Validate", "Analyze", "Backup", "Extract", "PopulateCells", "AutoDetect",
      "Translate", "Apply", "Cleanup">>

TranslationStatuses == {"SUCCESS", "PARTIAL_SUCCESS", "FAILED"}

\* a validation that only looks at is_valid
ValidationFailed_InvalidOnly(rpt) == ~rpt.is_valid

\* line 50: not validation_report.is_valid or validation_report.has_errors
ValidationFailed(rpt) == ~rpt.is_valid \/ rpt.has_errors

\* an analysis that never stops the run
CannotProcess_Never(fi) == FALSE

\* line 61: not file_info.validation_result.can_process
CannotProcess(fi) == ~fi.can_process

\* TranslationRequest.should_ignore_text (translation_request.py:105-146)
should_ignore_text(text, f) ==
    \/ IsBlankText(text)
    \/ f.ignore_square_brackets /\ HasBracketSpan(text)
    \/ f.ignore_japanese_quotes /\ HasJapaneseQuotes(text)
    \/ f.ignore_urls /\ HasUrl(text)
    \/ f.ignore_emails /\ HasEmail(text)
    \/ f.ignore_numbers_only /\ IsNumbersOnly(text)
    \/ \E k \in 1..Len(f.custom_patterns) :       \* lines 138-144; re.error is skipped
          PatternCompiles(f.custom_patterns[k]) /\ PatternMatches(f.custom_patterns[k], text)

\* _populate_translation_cells, line 135: request.__class__.__dict__['cells']
\* raises KeyError ('cells' is a dataclass field without default, so the class
\* has no such attribute) as soon as one extracted text is not ignored
PopulateRaises(cont, f) ==
    \E k \in 1..Len(cont) : ~should_ignore_text(cont[k].text, f)

\* TranslationResponse.is_successful (translation_response.py:126-128)
response_is_successful(r) == r.status \in {"SUCCESS", "PARTIAL_SUCCESS"}

\* an apply step that takes an exception for a success
ApplySucceeded_UnlessFalse(outcome) == outcome # "false"

\* _apply_translations_to_file (lines 166-195): the repository's answer, False
\* when it raises
ApplySucceeded(outcome) == outcome = "true"

\* _create_failed_response (lines 209-240)
create_failed_response(error_message, additional_errors) ==
    [status |-> "FAILED", output_file_path |-> NoneValue,
     errors |-> <<[error_type |-> "PROCESSING_FAILED", error_message |-> error_message]>>
                \o [k \in 1..Len(additional_errors) |->
                      [error_type |-> "VALIDATION_ERROR",
                       error_message |-> additional_errors[k]]],
     warnings |-> <<>>]

\* what translate_usecase.execute returns (translate_text_usecase.py:89-100 and
\* 110-126): errors and warnings empty, output_file_path None
TranslateResponse(status) ==
    [status |-> status, output_file_path |-> NoneValue, errors |-> <<>>,
     warnings |-> <<>>]

\* no response yet
NoFileResponse ==
    [status |-> NoneValue, output_file_path |-> NoneValue, errors |-> <<>>,
     warnings |-> <<>>]

\* step 1 (lines 46-55)
validate_request ==
    /\ ppc = "validate"
    /\ stage_log' = Append(stage_log, "Validate")
    /\ IF ValidationFailed(validation_report)
       THEN /\ file_response' = create_failed_response("Request validation failed",
                                                        validation_report.errors)
            /\ ppc' = "returned"
       ELSE /\ ppc' = "analyze"
            /\ UNCHANGED file_response
    /\ UNCHANGED <<request, output_path, validation_report, file_info, backup_raises,
                   content, translation_response, translate_status, apply_outcome,
                   backup_failed>>
    /\ UNCHANGED <<bpvars, ucvars, utvars, vrvars, dlvars, mhvars, apvars>>

\* step 2 (lines 57-66)
analyze_file ==
    /\ ppc = "analyze"
    /\ stage_log' = Append(stage_log, "Analyze")
    /\ IF CannotProcess(file_info)
       THEN /\ file_response' = create_failed_response("File cannot be processed",
                                                        file_info.errors)
            /\ ppc' = "returned"
       ELSE /\ ppc' = "backup"
            /\ UNCHANGED file_response
    /\ UNCHANGED <<request, output_path, validation_report, file_info, backup_raises,
                   content, translation_response, translate_status, apply_outcome,
                   backup_failed>>
    /\ UNCHANGED <<bpvars, ucvars, utvars, vrvars, dlvars, mhvars, apvars>>

\* step 3 (lines 68-75): an exception of create_backup is logged and dropped
create_backup ==
    /\ ppc = "backup"
    /\ stage_log' = Append(stage_log, "Backup")
    /\ backup_failed' = backup_raises
    /\ ppc' = "extract"
    /\ UNCHANGED <<request, output_path, validation_report, file_info, backup_raises,
                   content, translation_response, file_response, translate_status,
                   apply_outcome>>
    /\ UNCHANGED <<bpvars, ucvars, utvars, vrvars, dlvars, mhvars, apvars>>

\* step 4 (lines 77-80)
extract_content ==
    /\ ppc = "extract"
    /\ stage_log' = Append(stage_log, "Extract")
    /\ ppc' = "populate"
    /\ UNCHANGED <<request, output_path, validation_report, file_info, backup_raises,
                   content, translation_response, file_response, translate_status,
                   apply_outcome, backup_failed>>
    /\ UNCHANGED <<bpvars, ucvars, utvars, vrvars, dlvars, mhvars, apvars>>

\* step 5 (lines 82-84 with _populate_translation_cells, lines 124-145); the
\* KeyError of line 135 goes to the handler of lines 118-122
populate_translation_cells ==
    /\ ppc = "populate"
    /\ stage_log' = Append(stage_log, "PopulateCells")
    /\ request' = [request EXCEPT !.cells = <<>>]
    /\ IF PopulateRaises(content, request.content_filters)
       THEN /\ file_response' = create_failed_response("Processing failed: 'cells'", <<>>)
            /\ ppc' = "returned"
       ELSE /\ ppc' = IF request.auto_detect_source THEN "auto_detect" ELSE "translate"
            /\ UNCHANGED file_response
    /\ UNCHANGED <<output_path, validation_report, file_info, backup_raises,
                   content, translation_response, translate_status, apply_outcome,
                   backup_failed>>
    /\ UNCHANGED <<bpvars, ucvars, utvars, vrvars, dlvars, mhvars, apvars>>

\* a threshold that a confidence has to exceed
Qualifies_Strict(d, min_confidence) ==
    d.confidence > min_confidence /\ d.language_code # "unknown"

\* detect_language_usecase.py line 70: the detections that are counted
Qualifies(d, min_confidence) ==
    d.confidence >= min_confidence /\ d.language_code # "unknown"

\* DetectLanguageUseCase.detect_most_common_language (lines 58-84) on the
\* answers obtained for the texts, in order: None when nothing qualifies,
\* else the language counted most often, the first one counted winning a tie
\* (max over the dict's items, line 78)
detect_most_common_language(answers, min_confidence) ==
    LET qual == SelectSeq(answers, LAMBDA d : Qualifies(d, min_confidence))
        Count(l) == Cardinality({k \in 1..Len(qual) : qual[k].language_code = l})
        first == CHOOSE k \in 1..Len(qual) :
                    /\ \A j \in 1..Len(qual) :
                          Count(qual[j].language_code) <= Count(qual[k].language_code)
                    /\ \A j \in 1..(k - 1) :
                          Count(qual[j].language_code) < Count(qual[k].language_code)
    IN  IF qual = <<>> THEN NoneValue ELSE qual[first].language_code

\* line 153: the positions of request.cells[:10] whose text is not blank
SampleIndexes(cs) ==
    SelectSeq([k \in 1..Min(SampleLimit, Len(cs)) |-> k],
              LAMBDA k : ~IsBlankText(cs[k].text))

\* step 6 (lines 86-89 with _auto_detect_source_language, lines 147-164)
auto_detect_source_language ==
    /\ ppc = "auto_detect"
    /\ stage_log' = Append(stage_log, "AutoDetect")
    /\ source_before' = request.source_language
    /\ LET sample == SampleIndexes(request.cells)
           answers == [k \in 1..Len(sample) |-> detections[sample[k]]]
           detected == detect_most_common_language(answers, MinConfidence)
       IN  IF request.cells = <<>> \/ sample = <<>>
           THEN UNCHANGED <<request, detect_calls>>
           ELSE /\ detect_calls' = detect_calls + 1
                /\ request' = IF detected \notin {NoneValue, "unknown"}
                              THEN [request EXCEPT !.source_language = detected]
                              ELSE request
    /\ UNCHANGED detections
    /\ ppc' = "translate"
    /\ UNCHANGED <<output_path, validation_report, file_info, backup_raises,
                   content, translation_response, file_response, translate_status,
                   apply_outcome, backup_failed>>
    /\ UNCHANGED <<bpvars, ucvars, utvars, vrvars, mhvars, apvars>>

\* step 7 (lines 91-93): the injected translate_usecase answers with any status
execute_translation ==
    /\ ppc = "translate"
    /\ stage_log' = Append(stage_log, "Translate")
    /\ \E status \in TranslationStatuses :
          /\ translation_response' = TranslateResponse(status)
          /\ translate_status' = status
          /\ ppc' = IF response_is_successful(TranslateResponse(status))
                       /\ output_path # NoneValue
                    THEN "apply" ELSE "cleanup"
    /\ UNCHANGED <<request, output_path, validation_report, file_info, backup_raises,
                   content, file_response, apply_outcome, backup_failed>>
    /\ UNCHANGED <<bpvars, ucvars, utvars, vrvars, dlvars, mhvars, apvars>>

\* step 8 (lines 95-106 with _apply_translations_to_file, lines 166-195)
apply_translations_to_file ==
    /\ ppc = "apply"
    /\ stage_log' = Append(stage_log, "Apply")
    /\ \E outcome \in {"true", "false", "raise"} :
          /\ apply_outcome' = outcome
          /\ translation_response' =
                IF ApplySucceeded(outcome)
                THEN [translation_response EXCEPT !.output_file_path = output_path]
                ELSE [translation_response EXCEPT
                        !.warnings = Append(@, "Failed to save translated file")]
    /\ ppc' = "cleanup"
    /\ UNCHANGED <<request, output_path, validation_report, file_info, backup_raises,
                   content, file_response, translate_status, backup_failed>>
    /\ UNCHANGED <<bpvars, ucvars, utvars, vrvars, dlvars, mhvars, apvars>>

\* step 9 (lines 108-116 with _cleanup_resources, lines 197-207) and the return
cleanup_resources ==
    /\ ppc = "cleanup"
    /\ stage_log' = Append(stage_log, "Cleanup")
    /\ file_response' = translation_response
    /\ ppc' = "returned"
    /\ UNCHANGED <<request, output_path, validation_report, file_info, backup_raises,
                   content, translation_response, translate_status, apply_outcome,
                   backup_failed>>
    /\ UNCHANGED <<bpvars, ucvars, utvars, vrvars, dlvars, mhvars, apvars>>

\* a test that takes every cell result for a success
cell_is_successful_Always(r) == TRUE

\* CellTranslationResult.is_successful (translation_response.py lines 33-36)
cell_is_successful(r) == r.error_message = NoneValue /\ r.translated_text # NoneValue

\* SheetTranslationResult.is_successful (translation_response.py lines 58-61);
\* _translate_sheet never sets a sheet's error_message
sheet_is_successful(sr) == sr.successful_translations > 0

\* _apply_translations_to_file, lines 172-184: per successful sheet, the
\* (translated_text, row, column) of its successful cell results
PrepareTranslationData(srs) ==
    LET good == SelectSeq(srs, sheet_is_successful)
    IN  [k \in 1..Len(good) |->
            [sheet_name |-> good[k].sheet_name,
             translations |->
                LET rs == SelectSeq(good[k].cell_results, cell_is_successful)
                IN  [j \in 1..Len(rs) |->
                        [translated_text |-> rs[j].translated_text,
                         row |-> rs[j].row, column |-> rs[j].column]]]]

\* process_file_usecase.py lines 96-100 and 172-187: a successful response of
\* translate_usecase.execute is turned into the data for apply_translations
prepare_translation_data ==
    /\ upc = "done"
    /\ apc = "none"
    /\ response_is_successful(response)
    /\ translation_data' = PrepareTranslationData(response.sheet_results)
    /\ apc' = "prepared"
    /\ UNCHANGED <<bpvars, ucvars, pfvars, utvars, vrvars, dlvars, mhvars>>

\* ================================================================ part 4
\* excel/utils.py: ExcelUtils.calculate_optimal_batch_size, with the factors in
\* tenths (0.6 is 6) and the file size in tenths of a megabyte; the products of
\* the 36 factor combinations are the same in floating point and exactly

Max(a, b) == IF a > b THEN a ELSE b

\* lines 306-318
TextFactor(total_texts) ==
    IF total_texts < 100 THEN 6
    ELSE IF total_texts < 500 THEN 10
    ELSE IF total_texts < 1000 THEN 15
    ELSE 20

\* a length factor that takes a length of 0 for a short text
LengthFactor_ZeroIsShort(avg_text_length) ==
    IF avg_text_length < 50 THEN 12
    ELSE IF avg_text_length < 200 THEN 10
    ELSE 7

\* lines 320-332
LengthFactor(avg_text_length) ==
    IF avg_text_length > 0
    THEN IF avg_text_length < 50 THEN 12
         ELSE IF avg_text_length < 200 THEN 10
         ELSE 7
    ELSE 10

\* lines 334-346 (size in tenths of a MB)
SizeFactor(file_size) ==
    IF file_size > 0
    THEN IF file_size < 10 THEN 8
         ELSE IF file_size < 50 THEN 10
         ELSE 13
    ELSE 10

\* line 349: int(base_batch_size * text_factor * length_factor * size_factor)
RawBatchSize(total_texts, avg_text_length, file_size) ==
    (BaseBatchSize * TextFactor(total_texts) * LengthFactor(avg_text_length)
       * SizeFactor(file_size)) \div 1000

\* a batch size that grows with the number of texts and knows no bounds
calculate_optimal_batch_size_Proportional(total_texts, avg_text_length, file_size) ==
    (BaseBatchSize * total_texts) \div 100

\* lines 348-354: the product, clamped by max(10, min(optimal_size, 200))
calculate_optimal_batch_size(total_texts, avg_text_length, file_size) ==
    Max(10, Min(RawBatchSize(total_texts, avg_text_length, file_size), 200))

NoOptResult == [returned |-> FALSE, value |-> 0]

\* one call of calculate_optimal_batch_size
optimal_batch_size_call ==
    /\ ~opt_result.returned
    /\ opt_args.given
    /\ opt_result' =
          [returned |-> TRUE,
           value |-> calculate_optimal_batch_size(opt_args.total_texts,
                        opt_args.avg_text_length, opt_args.file_size)]
    /\ UNCHANGED <<opt_args, skip_args, skip_result>>
    /\ UNCHANGED <<bpvars, ucvars, pfvars, vrvars, dlvars, mhvars, apvars>>

\* TranslateTextUseCase._should_skip_text applied to one text
should_skip_call ==
    /\ skip_args.given
    /\ skip_result.skip = NoneValue
    /\ skip_result' = [skip_result EXCEPT
                         !.skip = should_skip_text(skip_args.text, skip_args.filters)]
    /\ UNCHANGED <<opt_args, opt_result, skip_args>>
    /\ UNCHANGED <<bpvars, ucvars, pfvars, vrvars, dlvars, mhvars, apvars>>

\* TranslationRequest.should_ignore_text applied to the same text
should_ignore_call ==
    /\ skip_args.given
    /\ skip_result.ignore = NoneValue
    /\ skip_result' = [skip_result EXCEPT
                         !.ignore = IF should_ignore_text(skip_args.text, skip_args.filters)
                                    THEN "skip" ELSE "keep"]
    /\ UNCHANGED <<opt_args, opt_result, skip_args>>
    /\ UNCHANGED <<bpvars, ucvars, pfvars, vrvars, dlvars, mhvars, apvars>>

\* ================================================================ part 5
\* application/usecases/validate_request_usecase.py and
\* interfaces/validators/validation_interface.py

\* ValidationReport.add_error / add_warning / add_info (lines 52-71)
ErrorEntry(code) == [is_valid |-> FALSE, severity |-> "ERROR", code |-> code]
WarningEntry(code) == [is_valid |-> TRUE, severity |-> "WARNING", code |-> code]
InfoEntry(code) == [is_valid |-> TRUE, severity |-> "INFO", code |-> code]

\* ValidationResult.is_error (lines 31-34)
is_error(r) == r.severity \in {"ERROR", "CRITICAL"}

\* ValidationReport.is_valid (lines 73-76) and has_errors (lines 78-81)
report_is_valid(rs) == \A k \in 1..Len(rs) : rs[k].is_valid
report_has_errors(rs) == \E k \in 1..Len(rs) : is_error(rs[k])

\* an execute without the handler of line 59
Handled_Never(exc) == FALSE

\* execute, line 59: except Exception catches whatever a step raised
Handled(exc) == exc \in {"AttributeError", "TypeError"}

\* a validator loop that gives up at the first validator that raises
NextValidator_StopOnRaise(idx, raised, n) == IF raised THEN n + 1 ELSE idx + 1

\* execute, lines 46-53: the for loop goes on to the next validator either way
NextValidator(idx, raised, n) == idx + 1

\* where a step goes when an attribute of a missing settings object is read:
\* the handler of lines 59-61 adds VALIDATION_FAILED and execute returns
RaiseInStep(exc) ==
    IF Handled(exc)
    THEN /\ report' = Append(report, ErrorEntry("VALIDATION_FAILED"))
         /\ vpc' = "returned"
    ELSE /\ vpc' = "raised"
         /\ UNCHANGED report

\* a check that only notices a target language of None
TargetMissing_NoneOnly(ls) == ls.target_language = NoneValue

\* line 74: not request.language_settings.target_language
TargetMissing(ls) == ls.target_language \in {"", NoneValue}

\* a validation that fills in a missing target language
request_after_validation_Defaulted(req) ==
    IF req.language_settings.target_language = ""
    THEN [req EXCEPT !.language_settings.target_language = "en"]
    ELSE req

\* lines 23-63 and 65-228 only read the request: it is the same object, with
\* the same fields, after validation as before
request_after_validation(req) == req

\* _validate_basic_request (lines 65-83)
validate_basic_request ==
    /\ vpc = "basic"
    /\ LET e1 == IF vrequest.file_path = "" THEN <<ErrorEntry("MISSING_FILE_PATH")>>
                 ELSE <<>>
           e2 == IF vrequest.language_settings.is_none
                 THEN <<ErrorEntry("MISSING_LANGUAGE_SETTINGS")>> ELSE <<>>
           e3 == IF TargetMissing(vrequest.language_settings)
                 THEN <<ErrorEntry("MISSING_TARGET_LANGUAGE")>> ELSE <<>>
           e4 == IF vrequest.batch_settings.is_none
                 THEN <<ErrorEntry("MISSING_BATCH_SETTINGS")>> ELSE <<>>
           e5 == IF vrequest.content_filters_missing
                 THEN <<ErrorEntry("MISSING_CONTENT_FILTERS")>> ELSE <<>>
       IN  IF vrequest.language_settings.is_none
           THEN \* line 74 reads target_language of None
                IF Handled("AttributeError")
                THEN /\ report' = (report \o e1 \o e2)
                                     \o <<ErrorEntry("VALIDATION_FAILED")>>
                     /\ vpc' = "returned"
                ELSE /\ report' = report \o e1 \o e2
                     /\ vpc' = "raised"
           ELSE /\ report' = report \o e1 \o e2 \o e3 \o e4 \o e5
                /\ vpc' = "file"
    /\ vrequest' = request_after_validation(vrequest)
    /\ UNCHANGED <<validators, vidx, ran, loop_entry, runs, first_run>>
    /\ UNCHANGED <<bpvars, ucvars, pfvars, utvars, dlvars, mhvars, apvars>>

\* _validate_file (lines 85-122); sizes in megabytes
validate_file ==
    /\ vpc = "file"
    /\ LET f == vrequest.file
           suffix == IF ~f.supported_suffix THEN <<ErrorEntry("UNSUPPORTED_FORMAT")>>
                     ELSE <<>>
           size == IF f.size_mb > 100 THEN <<WarningEntry("LARGE_FILE")>>
                   ELSE IF f.size_mb > 500 THEN <<ErrorEntry("FILE_TOO_LARGE")>>
                   ELSE <<>>
           perm == IF ~f.readable THEN <<ErrorEntry("NO_READ_PERMISSION")>> ELSE <<>>
       IN  report' =
             IF ~f.exists THEN Append(report, ErrorEntry("FILE_NOT_FOUND"))
             ELSE IF ~f.is_file THEN Append(report, ErrorEntry("NOT_A_FILE"))
             ELSE report \o suffix \o size \o perm
    /\ vpc' = "languages"
    /\ UNCHANGED <<vrequest, validators, vidx, ran, loop_entry, runs, first_run>>
    /\ UNCHANGED <<bpvars, ucvars, pfvars, utvars, dlvars, mhvars, apvars>>

\* line 129-132: the language codes taken for common
CommonLanguages ==
    {"en", "ja", "vi", "zh", "ko", "es", "fr", "de", "it", "pt", "ru", "ar", "hi",
     "th", "id", "ms", "tl", "auto"}

\* _validate_languages (lines 124-154)
validate_languages ==
    /\ vpc = "languages"
    /\ LET ls == vrequest.language_settings
           w1 == IF ls.target_language \notin CommonLanguages
                 THEN <<WarningEntry("UNCOMMON_TARGET_LANGUAGE")>> ELSE <<>>
           w2 == IF ls.source_language \notin {NoneValue, ""}
                    /\ ls.source_language \notin CommonLanguages
                 THEN <<WarningEntry("UNCOMMON_SOURCE_LANGUAGE")>> ELSE <<>>
           e3 == IF ls.source_language \notin {NoneValue, ""}
                    /\ ls.source_language = ls.target_language
                 THEN <<ErrorEntry("SAME_SOURCE_TARGET_LANGUAGE")>> ELSE <<>>
           w4 == IF ls.auto_detect_source /\ ls.source_language \notin {NoneValue, ""}
                 THEN <<WarningEntry("CONFLICTING_LANGUAGE_SETTINGS")>> ELSE <<>>
       IN  report' = report \o w1 \o w2 \o e3 \o w4
    /\ vpc' = "batch"
    /\ UNCHANGED <<vrequest, validators, vidx, ran, loop_entry, runs, first_run>>
    /\ UNCHANGED <<bpvars, ucvars, pfvars, utvars, dlvars, mhvars, apvars>>

\* an upper limit that the limit value itself already passes
Exceeds_OrEqual(value, limit) == value >= limit

\* lines 163, 172, 179 and 185: value > limit
Exceeds(value, limit) == value > limit

\* _validate_batch_settings (lines 156-187)
validate_batch_settings ==
    /\ vpc = "batch"
    /\ LET b == vrequest.batch_settings
           r1 == IF b.batch_size <= 0 THEN <<ErrorEntry("INVALID_BATCH_SIZE")>>
                 ELSE IF Exceeds(b.batch_size, 100) THEN <<WarningEntry("LARGE_BATCH_SIZE")>>
                 ELSE <<>>
           r2 == IF b.max_concurrent_requests <= 0
                 THEN <<ErrorEntry("INVALID_CONCURRENT_REQUESTS")>>
                 ELSE IF Exceeds(b.max_concurrent_requests, 10)
                 THEN <<WarningEntry("HIGH_CONCURRENT_REQUESTS")>>
                 ELSE <<>>
           r3 == IF b.retry_attempts < 0 THEN <<ErrorEntry("INVALID_RETRY_ATTEMPTS")>>
                 ELSE IF Exceeds(b.retry_attempts, 5) THEN <<WarningEntry("HIGH_RETRY_ATTEMPTS")>>
                 ELSE <<>>
           r4 == IF b.retry_delay < 0 THEN <<ErrorEntry("INVALID_RETRY_DELAY")>>
                 ELSE IF Exceeds(b.retry_delay, 10) THEN <<WarningEntry("LONG_RETRY_DELAY")>>
                 ELSE <<>>
       IN  IF b.is_none
           THEN RaiseInStep("AttributeError")     \* line 161 reads batch_size of None
           ELSE /\ report' = report \o r1 \o r2 \o r3 \o r4
                /\ vpc' = "content"
    /\ UNCHANGED <<vrequest, validators, vidx, ran, loop_entry, runs, first_run>>
    /\ UNCHANGED <<bpvars, ucvars, pfvars, utvars, dlvars, mhvars, apvars>>

\* _validate_content (lines 189-228); the cell and character limits of lines
\* 198-212 are far above the requests tried
validate_content ==
    /\ vpc = "content"
    /\ LET cs == vrequest.cells
           info == IF \E k \in 1..Len(cs) : IsBlankText(cs[k].text)
                   THEN <<InfoEntry("EMPTY_CELLS_FOUND")>> ELSE <<>>
           pos == IF \E k \in 1..Len(cs) : cs[k].row < 1 \/ cs[k].column < 1
                  THEN <<ErrorEntry("INVALID_CELL_POSITIONS")>> ELSE <<>>
       IN  report' = IF cs = <<>>
                     THEN Append(report, WarningEntry("NO_CELLS_TO_TRANSLATE"))
                     ELSE report \o info \o pos
    /\ vpc' = "validators"
    /\ vidx' = 1
    /\ loop_entry' = report'
    /\ UNCHANGED <<vrequest, validators, ran, runs, first_run>>
    /\ UNCHANGED <<bpvars, ucvars, pfvars, utvars, dlvars, mhvars, apvars>>

\* execute, lines 46-53: one custom validator is called; its results are
\* merged, or the exception it raised becomes a VALIDATOR_ERROR entry
run_validator ==
    /\ vpc = "validators"
    /\ vidx <= Len(validators)
    /\ LET v == validators[vidx] IN
       /\ report' = IF v.raises THEN Append(report, ErrorEntry("VALIDATOR_ERROR"))
                     ELSE report \o v.results
       /\ vidx' = NextValidator(vidx, v.raises, Len(validators))
    /\ ran' = Append(ran, vidx)
    /\ UNCHANGED <<vrequest, validators, vpc, loop_entry, runs, first_run>>
    /\ UNCHANGED <<bpvars, ucvars, pfvars, utvars, dlvars, mhvars, apvars>>

\* execute, lines 55-63: the loop is over, the report is returned
validation_return ==
    /\ vpc = "validators"
    /\ vidx > Len(validators)
    /\ vpc' = "returned"
    /\ UNCHANGED <<vrequest, validators, report, vidx, ran, loop_entry, runs, first_run>>
    /\ UNCHANGED <<bpvars, ucvars, pfvars, utvars, dlvars, mhvars, apvars>>

\* execute is called once more with the same request on the same use case
\* object: line 27 makes a new report, and the loop of line 46 starts over
validate_again ==
    /\ vpc = "returned"
    /\ runs = 1
    /\ runs' = 2
    /\ first_run' = [request |-> vrequest, results |-> report, recorded |-> TRUE]
    /\ report' = <<>>
    /\ vpc' = "basic"
    /\ vidx' = 0
    /\ ran' = <<>>
    /\ loop_entry' = <<>>
    /\ UNCHANGED <<vrequest, validators>>
    /\ UNCHANGED <<bpvars, ucvars, pfvars, utvars, dlvars, mhvars, apvars>>

\* ------------------------------------------------------------ specifications
\* State after TranslationManager.__init__ and the add_task calls
ManagerInit ==
    /\ cancel_requested = FALSE
    /\ current_task = 0
    /\ thread = "none"
    /\ pc = "idle"
    /\ task_idx = 0
    /\ translated_texts = <<>>
    /\ batch_start = 0
    /\ processed_count = 0
    /\ attempt = 0
    /\ batch_results = <<>>
    /\ success = TRUE
    /\ completion = "none"
    /\ slice_calls = 0
    /\ slice_fails = 0
    /\ outcomes = <<>>
    /\ calls_total = 0
    /\ cancel_in_pt = FALSE
    /\ cancel_in_run = FALSE
    /\ cancels = 0
    /\ progress_log = <<>>
    /\ starts = 0
    /\ workers_alive = 0
    /\ refused = FALSE
    /\ prev_cancelled = FALSE
    /\ wait = NoWait

\* the locals of TranslateTextUseCase.execute before it is called
UseCaseLocalsInit ==
    /\ upc = "start"
    /\ sheets_data = <<>>
    /\ sheet_no = 0
    /\ chunk_start = 0
    /\ results = <<>>
    /\ successful = 0
    /\ failed = 0
    /\ skipped = 0
    /\ sheet_results = <<>>
    /\ total_successful = 0
    /\ total_failed = 0
    /\ total_skipped = 0
    /\ total_api_calls = 0
    /\ response = NoResponse
    /\ service_calls = 0
    /\ chunk_log = <<>>

\* no translation request is being executed
UseCaseIdle ==
    /\ cells = <<>>
    /\ batch_settings = [batch_size |-> 1, retry_attempts |-> DefaultRetryAttempts]
    /\ language_settings = [source_language |-> "en", target_language |-> "ja"]
    /\ content_filters = DefaultFilters
    /\ UseCaseLocalsInit

\* the locals of ProcessFileUseCase.execute before its first step
ProcessFileLocalsInit ==
    /\ translation_response = NoFileResponse
    /\ file_response = NoFileResponse
    /\ stage_log = <<>>
    /\ translate_status = NoneValue
    /\ apply_outcome = NoneValue
    /\ backup_failed = FALSE

\* no file is being processed
ProcessFileIdle ==
    /\ request = [cells |-> <<>>, content_filters |-> DefaultFilters,
                  auto_detect_source |-> FALSE, source_language |-> "en",
                  target_language |-> "ja"]
    /\ output_path = NoneValue
    /\ validation_report = [is_valid |-> TRUE, has_errors |-> FALSE, errors |-> <<>>]
    /\ file_info = [can_process |-> TRUE, errors |-> <<>>]
    /\ backup_raises = FALSE
    /\ content = <<>>
    /\ ppc = "none"
    /\ ProcessFileLocalsInit

\* no helper function is being called
UtilsIdle ==
    /\ opt_args = [given |-> FALSE, total_texts |-> 0, avg_text_length |-> 0,
                   file_size |-> 0]
    /\ opt_result = NoOptResult
    /\ skip_args = [given |-> FALSE, text |-> "", filters |-> DefaultFilters]
    /\ skip_result = [skip |-> NoneValue, ignore |-> NoneValue]

\* LanguageSettings, BatchTranslationSettings (translation_request.py, lines
\* 20-37); is_none marks a request built with None in the object's place
NoLanguageSettings ==
    [is_none |-> TRUE, target_language |-> "", source_language |-> NoneValue,
     auto_detect_source |-> FALSE]
NoBatchSettings ==
    [is_none |-> TRUE, batch_size |-> 0, max_concurrent_requests |-> 0,
     retry_attempts |-> 0, retry_delay |-> 0]
DefaultBatchSettings ==
    [is_none |-> FALSE, batch_size |-> 50, max_concurrent_requests |-> 5,
     retry_attempts |-> 3, retry_delay |-> 1]
RegularFile(size_mb) ==
    [exists |-> TRUE, is_file |-> TRUE, supported_suffix |-> TRUE,
     size_mb |-> size_mb, readable |-> TRUE]
Directory ==
    [exists |-> TRUE, is_file |-> FALSE, supported_suffix |-> FALSE,
     size_mb |-> 0, readable |-> TRUE]

\* the validation use case starts with an empty report
ValidateLocalsInit ==
    /\ report = <<>>
    /\ vpc = "basic"
    /\ vidx = 0
    /\ ran = <<>>
    /\ loop_entry = <<>>
    /\ runs = 1
    /\ first_run = [request |-> vrequest, results |-> <<>>, recorded |-> FALSE]

\* no request is being validated
ValidationIdle ==
    /\ vrequest = [file_path |-> "book.xlsx", file |-> RegularFile(1),
                   language_settings |-> NoLanguageSettings,
                   batch_settings |-> NoBatchSettings,
                   content_filters_missing |-> FALSE, cells |-> <<>>]
    /\ validators = <<>>
    /\ report = <<>>
    /\ vpc = "none"
    /\ vidx = 0
    /\ ran = <<>>
    /\ loop_entry = <<>>
    /\ runs = 0
    /\ first_run = [request |-> vrequest, results |-> <<>>, recorded |-> FALSE]

\* no data has been prepared for apply_translations
ApplyIdle ==
    /\ translation_data = <<>>
    /\ apc = "none"

\* no language detection has been asked for
DetectIdle ==
    /\ detections = <<>>
    /\ detect_calls = 0
    /\ source_before = NoneValue

\* no manager work is queued
ManagerIdle ==
    /\ tasks = <<>>
    /\ ManagerInit
    /\ ApplyIdle
    /\ batch_size = 1
    /\ max_retries = DefaultMaxRetries

\* one task holding any list of 1..MaxLen texts, run by a BatchProcessor built
\* with any batch_size and max_retries (BatchProcessor.__init__, lines 10-23)
Init ==
    /\ \E texts \in SeqsUpTo(Texts, MaxLen) : tasks = <<NewTask(texts)>>
    /\ batch_size \in 1..MaxBatch
    /\ max_retries \in 1..MaxRetries
    /\ ManagerInit
    /\ ApplyIdle
    /\ UseCaseIdle
    /\ ProcessFileIdle
    /\ UtilsIdle
    /\ ValidationIdle
    /\ DetectIdle

Next ==
    \/ start_processing
    \/ cancel_processing
    \/ process_tasks_next
    \/ process_texts_begin
    \/ process_texts_slice
    \/ retry_attempt
    \/ provider_returns
    \/ provider_raises
    \/ backoff_done
    \/ store_results
    \/ mark_completed
    \/ process_tasks_finish

Spec == Init /\ [][Next]_vars

\* TranslationManager.__init__ (line 204) builds its BatchProcessor with the
\* default max_retries; 1..MaxTasks tasks of one or two texts are queued
InitTasks ==
    /\ \E n \in 1..MaxTasks :
         \E lens \in [1..n -> {1, 2}] :
            tasks = [k \in 1..n |-> NewTask([j \in 1..lens[k] |-> "a"])]
    /\ batch_size \in 1..MaxBatch
    /\ max_retries = DefaultMaxRetries
    /\ ManagerInit
    /\ ApplyIdle
    /\ UseCaseIdle
    /\ ProcessFileIdle
    /\ UtilsIdle
    /\ ValidationIdle
    /\ DetectIdle

SpecTasks == InitTasks /\ [][Next]_vars

\* a manager whose tasks hold one text each, started, and started again
InitRestart ==
    /\ \E n \in 1..MaxTasks : tasks = [k \in 1..n |-> NewTask(<<"a">>)]
    /\ batch_size = 1
    /\ max_retries = DefaultMaxRetries
    /\ ManagerInit
    /\ ApplyIdle
    /\ UseCaseIdle
    /\ ProcessFileIdle
    /\ UtilsIdle
    /\ ValidationIdle
    /\ DetectIdle

NextRestart ==
    \/ Next
    \/ start_processing_again

SpecRestart == InitRestart /\ [][NextRestart]_vars

\* a BatchProcessor built with max_retries = BackoffRetries, so that the
\* attempts 0, 1 and 2 are each followed by a wait
InitBackoff ==
    /\ \E texts \in SeqsUpTo({"a"}, 2) : tasks = <<NewTask(texts)>>
    /\ batch_size \in 1..MaxBatch
    /\ max_retries = BackoffRetries
    /\ ManagerInit
    /\ ApplyIdle
    /\ UseCaseIdle
    /\ ProcessFileIdle
    /\ UtilsIdle
    /\ ValidationIdle
    /\ DetectIdle

SpecBackoff == InitBackoff /\ [][Next]_vars

\* a request of 0..MaxCells cells, cell k at row k, column 1
RequestCells ==
    UNION {[1..n -> [text : CellTexts, sheet_name : SheetNames]] : n \in 0..MaxCells}

InitUseCase ==
    /\ \E cs \in RequestCells :
         cells = [k \in 1..Len(cs) |->
                    [text |-> cs[k].text, row |-> k, column |-> 1,
                     sheet_name |-> cs[k].sheet_name]]
    /\ \E b \in 0..MaxChunk :
         batch_settings = [batch_size |-> b, retry_attempts |-> DefaultRetryAttempts]
    /\ language_settings = [source_language |-> "en", target_language |-> "ja"]
    /\ content_filters \in {DefaultFilters, NoFilters, MissingFilters}
    /\ UseCaseLocalsInit
    /\ ManagerIdle
    /\ ProcessFileIdle
    /\ UtilsIdle
    /\ ValidationIdle
    /\ DetectIdle

NextUseCase ==
    \/ execute_begin
    \/ translate_sheet_begin
    \/ translate_sheet_chunk
    \/ translate_sheet_end
    \/ execute_finish

SpecUseCase == InitUseCase /\ [][NextUseCase]_vars

\* TranslateTextUseCase.execute followed by the preparation of the apply data
NextApply ==
    \/ NextUseCase
    \/ prepare_translation_data

SpecApply == InitUseCase /\ [][NextApply]_vars

\* the reports validate_usecase.execute may return: is_valid and has_errors are
\* computed from different fields of the results (validation_interface.py:73-81)
ValidationReports ==
    {[is_valid |-> v, has_errors |-> e,
      errors |-> IF e THEN <<"Target language is required">> ELSE <<>>] :
        v \in BOOLEAN, e \in BOOLEAN}

\* the answers of file_service.analyze_file
FileInfos ==
    {[can_process |-> TRUE, errors |-> <<>>],
     [can_process |-> FALSE, errors |-> <<"File is corrupted">>]}

\* what extract_content returns: 0..MaxContent (text, row, column) entries
ExtractedContents ==
    UNION {[1..n -> [text : {"Hello", "", "2024-01-01"}, sheet_name : {"Sheet1"}]] :
             n \in 0..MaxContent}

\* ProcessFileUseCase.execute is called with any request and output path
InitProcessFile ==
    /\ \E cs \in {<<>>, <<[text |-> "old", row |-> 1, column |-> 1]>>},
          f \in {DefaultFilters, NoFilters}, a \in BOOLEAN, sl \in {NoneValue, "en"} :
          request = [cells |-> cs, content_filters |-> f, auto_detect_source |-> a,
                     source_language |-> sl, target_language |-> "ja"]
    /\ output_path \in {NoneValue, "out.xlsx"}
    /\ validation_report \in ValidationReports
    /\ file_info \in FileInfos
    /\ backup_raises \in BOOLEAN
    /\ \E ex \in ExtractedContents :
          content = [k \in 1..Len(ex) |->
                       [text |-> ex[k].text, row |-> k, column |-> 1,
                        sheet_name |-> ex[k].sheet_name]]
    /\ ppc = "validate"
    /\ ProcessFileLocalsInit
    /\ ManagerIdle
    /\ UseCaseIdle
    /\ UtilsIdle
    /\ ValidationIdle
    /\ DetectIdle

NextProcessFile ==
    \/ validate_request
    \/ analyze_file
    \/ create_backup
    \/ extract_content
    \/ populate_translation_cells
    \/ auto_detect_source_language
    \/ execute_translation
    \/ apply_translations_to_file
    \/ cleanup_resources

SpecProcessFile == InitProcessFile /\ [][NextProcessFile]_vars

\* the arguments tried: the values around every threshold of the three factors
TotalTextsValues == {0, 99, 100, 499, 500, 999, 1000, 2000}
AvgLengthValues == {0, 1, 49, 50, 199, 200, 300}
FileSizeValues == {0, 5, 9, 10, 49, 50, 100}

InitBatchSize ==
    /\ \E t \in TotalTextsValues, l \in AvgLengthValues, z \in FileSizeValues :
          opt_args = [given |-> TRUE, total_texts |-> t, avg_text_length |-> l,
                      file_size |-> z]
    /\ opt_result = NoOptResult
    /\ skip_args = [given |-> FALSE, text |-> "", filters |-> DefaultFilters]
    /\ skip_result = [skip |-> NoneValue, ignore |-> NoneValue]
    /\ ManagerIdle
    /\ UseCaseIdle
    /\ ProcessFileIdle
    /\ ValidationIdle
    /\ DetectIdle

NextBatchSize == optimal_batch_size_call

SpecBatchSize == InitBatchSize /\ [][NextBatchSize]_vars

\* the texts and filter objects a skip decision is taken for
SkipTexts == CellTexts \cup {"<<quoted>>", "https://x.io", "a@b.co", "Hello!"}
FilterObjects ==
    {[is_none |-> FALSE, ignore_square_brackets |-> b, ignore_japanese_quotes |-> q,
      ignore_urls |-> u, ignore_emails |-> e, ignore_numbers_only |-> n,
      custom_patterns |-> cp] :
        b \in BOOLEAN, q \in BOOLEAN, u \in BOOLEAN, e \in BOOLEAN, n \in BOOLEAN,
        cp \in {<<>>} \cup SeqsUpTo(CustomPatterns, MaxPatterns)}

InitSkip ==
    /\ \E t \in SkipTexts, f \in FilterObjects :
          skip_args = [given |-> TRUE, text |-> t, filters |-> f]
    /\ skip_result = [skip |-> NoneValue, ignore |-> NoneValue]
    /\ opt_args = [given |-> FALSE, total_texts |-> 0, avg_text_length |-> 0,
                   file_size |-> 0]
    /\ opt_result = NoOptResult
    /\ ManagerIdle
    /\ UseCaseIdle
    /\ ProcessFileIdle
    /\ ValidationIdle
    /\ DetectIdle

NextSkip ==
    \/ should_skip_call
    \/ should_ignore_call

SpecSkip == InitSkip /\ [][NextSkip]_vars

\* the files a request may name: absent, a directory, or a regular file that is
\* unsupported, unreadable, or of a size on either side of lines 109 and 112
ValidatedFiles ==
    {[exists |-> FALSE, is_file |-> FALSE, supported_suffix |-> FALSE,
      size_mb |-> 0, readable |-> FALSE],
     Directory,
     [RegularFile(50) EXCEPT !.supported_suffix = FALSE],
     [RegularFile(50) EXCEPT !.readable = FALSE]}
    \cup {RegularFile(mb) : mb \in {100, 101, 500, 501}}

ValidatedLanguageSettings ==
    {NoLanguageSettings}
    \cup [is_none : {FALSE}, target_language : {"", "ja"},
          source_language : {NoneValue, "ja", "en"}, auto_detect_source : BOOLEAN]

ValidatedBatchSettings ==
    {NoBatchSettings, DefaultBatchSettings,
     [DefaultBatchSettings EXCEPT !.batch_size = 0, !.retry_delay = 11],
     [DefaultBatchSettings EXCEPT !.batch_size = 101, !.retry_attempts = -1]}

ValidatedCells ==
    {<<>>,
     <<[text |-> "Hello", row |-> 1, column |-> 1]>>,
     <<[text |-> "", row |-> 1, column |-> 1], [text |-> "Hello", row |-> 0, column |-> 1]>>}

\* what a custom validator may do when called (ValidationInterface.validate,
\* validation_interface.py lines 111-114): raise, or return a report whose
\* results were built with any is_valid flag and any severity
\* (ValidationResult.__init__, lines 20-29)
ValidatorBehaviours ==
    {[raises |-> TRUE, results |-> <<>>],
     [raises |-> FALSE, results |-> <<ErrorEntry("CUSTOM_A")>>],
     [raises |-> FALSE,
      results |-> <<[is_valid |-> TRUE, severity |-> "ERROR", code |-> "CUSTOM_B"],
                    InfoEntry("CUSTOM_C")>>]}

\* ValidateRequestUseCase(validators).execute(request) for any such request
InitValidate ==
    /\ \E path \in {"", "book.xlsx"}, f \in ValidatedFiles,
          ls \in ValidatedLanguageSettings, bs \in ValidatedBatchSettings,
          cfm \in BOOLEAN, cs \in ValidatedCells :
          /\ path = "" => f = Directory        \* Path("") is the working directory
          /\ vrequest = [file_path |-> path, file |-> f, language_settings |-> ls,
                         batch_settings |-> bs, content_filters_missing |-> cfm,
                         cells |-> cs]
    /\ validators \in {<<>>} \cup SeqsUpTo(ValidatorBehaviours, MaxValidators)
    /\ ValidateLocalsInit
    /\ ManagerIdle
    /\ UseCaseIdle
    /\ ProcessFileIdle
    /\ UtilsIdle
    /\ DetectIdle

NextValidate ==
    \/ validate_basic_request
    \/ validate_file
    \/ validate_languages
    \/ validate_batch_settings
    \/ validate_content
    \/ run_validator
    \/ validation_return

SpecValidate == InitValidate /\ [][NextValidate]_vars

\* batch settings on and next to every threshold of lines 161-187
ThresholdBatchSettings ==
    [is_none : {FALSE}, batch_size : {-1, 0, 1, 100, 101},
     max_concurrent_requests : {0, 1, 10, 11}, retry_attempts : {-1, 0, 5, 6},
     retry_delay : {-1, 0, 10, 11}]

\* execute on an otherwise well-formed request with any such batch settings
InitThresholds ==
    /\ \E bs \in ThresholdBatchSettings :
          vrequest = [file_path |-> "book.xlsx", file |-> RegularFile(1),
                      language_settings |->
                          [is_none |-> FALSE, target_language |-> "ja",
                           source_language |-> "en", auto_detect_source |-> FALSE],
                      batch_settings |-> bs, content_filters_missing |-> FALSE,
                      cells |-> <<[text |-> "Hello", row |-> 1, column |-> 1]>>]
    /\ validators \in {<<>>} \cup SeqsUpTo(ValidatorBehaviours, 1)
    /\ ValidateLocalsInit
    /\ ManagerIdle
    /\ UseCaseIdle
    /\ ProcessFileIdle
    /\ UtilsIdle
    /\ DetectIdle

SpecThresholds == InitThresholds /\ [][NextValidate]_vars

\* execute called twice: requests with and without each settings object, a
\* file that is missing or large, and at most one custom validator
InitValidateTwice ==
    /\ \E f \in {RegularFile(101), [Directory EXCEPT !.exists = FALSE]},
          ls \in ValidatedLanguageSettings, bs \in ValidatedBatchSettings,
          cfm \in BOOLEAN, cs \in ValidatedCells :
          vrequest = [file_path |-> "book.xlsx", file |-> f, language_settings |-> ls,
                      batch_settings |-> bs, content_filters_missing |-> cfm,
                      cells |-> cs]
    /\ validators \in {<<>>} \cup SeqsUpTo(ValidatorBehaviours, 1)
    /\ ValidateLocalsInit
    /\ ManagerIdle
    /\ UseCaseIdle
    /\ ProcessFileIdle
    /\ UtilsIdle
    /\ DetectIdle

NextValidateTwice ==
    \/ NextValidate
    \/ validate_again

SpecValidateTwice == InitValidateTwice /\ [][NextValidateTwice]_vars

\* a cell of the request and the detection service's answer for its text; a
\* blank text is never sent to the service (DetectLanguageUseCase.execute,
\* lines 27-29)
DetectedCells ==
    {[text |-> "", language_code |-> "unknown", confidence |-> 0],
     [text |-> "Hello", language_code |-> "unknown", confidence |-> 0]}
    \cup [text : {"Hello"}, language_code : {"en", "ja"},
          confidence : {MinConfidence - 1, MinConfidence}]

\* the cell lists tried: every list of 0..MaxSample cells, and lists of
\* SampleLimit + 1 cells whose last cell lies beyond the sample of line 153
DetectedCellLists ==
    {<<>>} \cup SeqsUpTo(DetectedCells, MaxSample)
    \cup {[k \in 1..(SampleLimit + 1) |-> IF k <= SampleLimit THEN c ELSE d] :
            c \in DetectedCells, d \in DetectedCells}

\* step 6 of ProcessFileUseCase.execute (line 86) met with a request that holds
\* cells, as steps 1-5 are meant to leave it: validation has passed (so a given
\* source language differs from the target) and the first five stages are
\* logged.  In the code as it stands populate_translation_cells raises on the
\* first translatable cell, so SpecProcessFile itself reaches step 6 only with
\* no cells; _auto_detect_source_language is studied here on its own.
InitAutoDetect ==
    /\ \E dc \in DetectedCellLists, a \in BOOLEAN, sl \in {NoneValue, "en"} :
          /\ request = [cells |-> [k \in 1..Len(dc) |->
                                     [text |-> dc[k].text, row |-> k, column |-> 1]],
                        content_filters |-> DefaultFilters, auto_detect_source |-> a,
                        source_language |-> sl, target_language |-> "ja"]
          /\ detections = [k \in 1..Len(dc) |->
                             [language_code |-> dc[k].language_code,
                              confidence |-> dc[k].confidence]]
          /\ content = [k \in 1..Len(dc) |->
                          [text |-> dc[k].text, row |-> k, column |-> 1,
                           sheet_name |-> "Sheet1"]]
          /\ ppc = IF a THEN "auto_detect" ELSE "translate"
    /\ output_path \in {NoneValue, "out.xlsx"}
    /\ validation_report = [is_valid |-> TRUE, has_errors |-> FALSE, errors |-> <<>>]
    /\ file_info = [can_process |-> TRUE, errors |-> <<>>]
    /\ backup_raises = FALSE
    /\ translation_response = NoFileResponse
    /\ file_response = NoFileResponse
    /\ stage_log = SubSeq(StageOrder, 1, 5)
    /\ translate_status = NoneValue
    /\ apply_outcome = NoneValue
    /\ backup_failed = FALSE
    /\ detect_calls = 0
    /\ source_before = NoneValue
    /\ ManagerIdle
    /\ UseCaseIdle
    /\ UtilsIdle
    /\ ValidationIdle

NextAutoDetect ==
    \/ auto_detect_source_language
    \/ execute_translation
    \/ apply_translations_to_file
    \/ cleanup_resources

SpecAutoDetect == InitAutoDetect /\ [][NextAutoDetect]_vars

\* ------------------------------------------------------------------ claims
\* the texts of the task being processed, and the slice (1-based) of position i
CurTexts == tasks[task_idx].texts
SliceOf(i) == ((i - 1) \div batch_size) + 1
NumSlices(n) == (n + batch_size - 1) \div batch_size

\* C1: an uncancelled process_texts run over N texts returns exactly N entries;
\* entry i is the provider's translation of input i when the slice holding i was
\* translated and input i itself when that slice exhausted its retries.
C1_OrderPreserved ==
    (pc = "pt_return" /\ ~cancel_in_pt) =>
        /\ Len(translated_texts) = Len(CurTexts)
        /\ Len(outcomes) = NumSlices(Len(CurTexts))
        /\ \A i \in 1..Len(CurTexts) :
              /\ outcomes[SliceOf(i)] \in {"translated", "exhausted"}
              /\ translated_texts[i] =
                    IF outcomes[SliceOf(i)] = "translated"
                    THEN translate_batch(<<CurTexts[i]>>)[1]
                    ELSE CurTexts[i]

\* an uncancelled run returned with one slice translated and another given up
C1_Witness ==
    /\ pc = "pt_return" /\ ~cancel_in_pt
    /\ CurTexts = <<"a", "b", "a">> /\ batch_size = 2
    /\ outcomes = <<"exhausted", "translated">>
    /\ translated_texts = <<"a", "b", "A">>

C3_UnstartedSlotsHoldSource ==
    (pc = "pt_return" /\ cancel_in_pt) =>
        \A i \in 1..Len(CurTexts) :
            i > batch_start => translated_texts[i] = CurTexts[i]

\* C4: a cancel_processing() call made at any moment while the worker thread is
\* running is never lost: after it no provider call for a new slice is started.
C4_CancelNeverLost ==
    [][cancel_in_run => ~(slice_calls = 0 /\ calls_total' > calls_total)]_vars

\* C5: without cancellation, a slice whose every call raises makes exactly
\* max_retries provider calls before it is given up, and a slice whose call
\* succeeds on attempt k makes exactly k calls.
C5_RetryCount ==
    (pc = "store" /\ ~cancel_in_pt) =>
        LET how == outcomes[Len(outcomes)] IN
        /\ how = "exhausted" =>
              slice_calls = max_retries /\ slice_fails = max_retries
        /\ how = "translated" =>
              /\ slice_calls = attempt + 1
              /\ slice_fails = attempt
              /\ slice_calls <= max_retries

\* a slice was given up after the default three calls, all of which raised
C5_Witness ==
    /\ pc = "store" /\ ~cancel_in_pt
    /\ max_retries = DefaultMaxRetries
    /\ outcomes[Len(outcomes)] = "exhausted"
    /\ slice_calls = DefaultMaxRetries

\* C6: process_texts never raises because of provider failures (no task is
\* marked failed); a slice that exhausted its retries leaves its original texts
\* at their positions and the loop goes on to the next slice.
C6_NeverRaises ==
    /\ \A t \in 1..Len(tasks) : tasks[t].status # "failed"
    /\ success
    /\ (InProcessTexts \/ pc = "pt_return") =>
          \A i \in 1..Len(translated_texts) :
              (i <= batch_start /\ outcomes[SliceOf(i)] = "exhausted") =>
                  translated_texts[i] = CurTexts[i]

\* the first slice was given up, the run went on and translated the second
C6_Witness ==
    /\ pc = "pt_return"
    /\ outcomes = <<"exhausted", "translated">>
    /\ CurTexts = <<"a", "b">>
    /\ translated_texts = <<"a", "B">>

\* the cells of sheet k that the content filter passes through / sends on
FilteredCells(k) ==
    {i \in 1..Len(sheets_data[k].cells) :
        should_skip_text(sheets_data[k].cells[i].text, content_filters) = "skip"}
KeptCells(k) ==
    {i \in 1..Len(sheets_data[k].cells) :
        should_skip_text(sheets_data[k].cells[i].text, content_filters) = "keep"}

\* C7: every SheetTranslationResult satisfies successful + failed + skipped =
\* total_cells, also when an exception escaped the per-chunk handling after
\* earlier chunks were counted.
C7_SheetAccounting ==
    \A k \in 1..Len(sheet_results) :
        sheet_results[k].successful_translations + sheet_results[k].failed_translations
            + sheet_results[k].skipped_cells = sheet_results[k].total_cells

\* C8: every cell submitted to the sheet orchestrator yields exactly one
\* CellTranslationResult: len(cell_results) is the number of cells and each
\* cell's row/column occurs in exactly one result.
C8_OneResultPerCell ==
    \A k \in 1..Len(sheet_results) :
        LET cs == sheets_data[k].cells
            rs == sheet_results[k].cell_results
        IN  /\ Len(rs) = Len(cs)
            /\ \A i \in 1..Len(cs) :
                  Cardinality({j \in 1..Len(rs) :
                      rs[j].row = cs[i].row /\ rs[j].column = cs[i].column}) = 1

\* C9: within a sheet, cell_results[i] is the result of cells[i] for every i,
\* also when skipped and translated cells are interleaved inside one chunk.
C9_ResultsInCellOrder ==
    \A k \in 1..Len(sheet_results) :
        LET cs == sheets_data[k].cells
            rs == sheet_results[k].cell_results
        IN  \A i \in 1..Min(Len(rs), Len(cs)) :
                /\ rs[i].row = cs[i].row
                /\ rs[i].column = cs[i].column
                /\ rs[i].original_text = cs[i].text

\* C10: a cell whose text the content filter filters out is counted in
\* skipped_cells and not in successful_translations (one translatable cell and
\* three filtered cells give successful = 1, skipped = 3).
C10_FilteredCountedSkipped ==
    \A k \in 1..Len(sheet_results) :
        ~content_filters.is_none =>
            /\ sheet_results[k].skipped_cells = Cardinality(FilteredCells(k))
            /\ sheet_results[k].successful_translations <= Cardinality(KeptCells(k))

\* sums of the per-sheet counts of a list of SheetTranslationResult
RECURSIVE SumSuccessful(_)
SumSuccessful(srs) ==
    IF srs = <<>> THEN 0 ELSE Head(srs).successful_translations + SumSuccessful(Tail(srs))
RECURSIVE SumFailed(_)
SumFailed(srs) ==
    IF srs = <<>> THEN 0 ELSE Head(srs).failed_translations + SumFailed(Tail(srs))

\* C11: the status of every response built on the normal path of execute is
\* FAILED iff the success count summed over all sheets is 0, SUCCESS iff the
\* failure count is 0 and the success count is positive, PARTIAL_SUCCESS
\* otherwise; the metrics carry the two sums.
C11_StatusDerivation ==
    upc = "done" =>
        LET sc == SumSuccessful(response.sheet_results)
            fc == SumFailed(response.sheet_results)
        IN  /\ response.status \in {"FAILED", "SUCCESS", "PARTIAL_SUCCESS"}
            /\ response.status = "FAILED" <=> sc = 0
            /\ response.status = "SUCCESS" <=> (fc = 0 /\ sc > 0)
            /\ response.status = "PARTIAL_SUCCESS" <=> (fc > 0 /\ sc > 0)
            /\ response.metrics.successful_translations = sc
            /\ response.metrics.failed_translations = fc

\* sheet A translated both its cells, every cell of sheet B failed
C11_Witness ==
    /\ upc = "done"
    /\ Len(response.sheet_results) = 2
    /\ response.sheet_results[1].successful_translations = 2
    /\ response.sheet_results[1].failed_translations = 0
    /\ response.sheet_results[2].successful_translations = 0
    /\ response.sheet_results[2].failed_translations = 1
    /\ response.status = "PARTIAL_SUCCESS"
    /\ response.metrics.successful_translations = 2
    /\ response.metrics.failed_translations = 1

\* the logged chunks of sheet k, and the chunks a sheet of n cells is cut into
ChunksOf(k) == {j \in 1..Len(chunk_log) : chunk_log[j].sheet = k}
NumChunks(n) ==
    (n + batch_settings.batch_size - 1) \div batch_settings.batch_size
ResultsFor(rs, c) == {j \in 1..Len(rs) : rs[j].row = c.row /\ rs[j].column = c.column}

\* C12: when the provider raises for one chunk of a sheet, every cell of that
\* chunk's translatable subset gets a result whose error_message is the
\* exception text and is counted as failed; the sheet is not aborted: all its
\* chunks are processed and the cells of the chunks whose call returned are
\* translated and counted as successful.
C12_ChunkFailureIsLocal ==
    \A k \in 1..Len(sheet_results) :
        LET rs == sheet_results[k].cell_results
            bad == {j \in ChunksOf(k) : chunk_log[j].outcome \in ServiceErrors}
        IN  bad # {} =>
            /\ Cardinality(ChunksOf(k)) = NumChunks(Len(sheets_data[k].cells))
            /\ \A j \in ChunksOf(k) :
                  LET sent == CellMapping(chunk_log[j].batch, content_filters)
                  IN  \A i \in 1..Len(sent) :
                        /\ Cardinality(ResultsFor(rs, sent[i])) = 1
                        /\ \A r \in ResultsFor(rs, sent[i]) :
                              IF j \in bad
                              THEN /\ rs[r].error_message = chunk_log[j].outcome
                                   /\ CountsAs(rs[r]) = "failed"
                              ELSE /\ rs[r].error_message = NoneValue
                                   /\ rs[r].translated_text = ServiceTranslate(sent[i].text)
                                   /\ CountsAs(rs[r]) = "successful"
            /\ sheet_results[k].failed_translations =
                  Cardinality({i \in 1..Len(rs) : rs[i].error_message \in ServiceErrors})
            /\ sheet_results[k].successful_translations >=
                  Cardinality({i \in 1..Len(rs) :
                      /\ rs[i].error_message = NoneValue
                      /\ rs[i].source_language_detected # NoneValue})

\* three chunks of one cell: the provider raised for the middle one only
C12_Witness ==
    /\ Len(sheet_results) >= 1
    /\ Len(chunk_log) >= 3
    /\ chunk_log[1].sheet = 1 /\ chunk_log[1].outcome = "ok"
    /\ chunk_log[2].sheet = 1 /\ chunk_log[2].outcome \in ServiceErrors
    /\ chunk_log[3].sheet = 1 /\ chunk_log[3].outcome = "ok"
    /\ sheet_results[1].successful_translations = 2
    /\ sheet_results[1].failed_translations = 1

\* C13: a chunk whose provider call raises is retried before its cells are
\* marked failed: its cells are recorded as failed only after retry_attempts
\* (3 by default) provider calls were made for the chunk.
C13_ChunkRetried ==
    \A j \in 1..Len(chunk_log) :
        chunk_log[j].outcome \in ServiceErrors =>
            chunk_log[j].calls = batch_settings.retry_attempts

C16_FailedCarriesError ==
    /\ response.status = "FAILED" => Len(response.errors) >= 1
    /\ file_response.status = "FAILED" => Len(file_response.errors) >= 1

\* C14: a task that was being processed when cancel_processing() was called
\* (its status was set to 'cancelled') never ends with status 'completed'.
C14_CancelledNotCompleted ==
    [][\A t \in 1..Len(tasks) :
          tasks[t].status = "cancelled" => tasks'[t].status # "completed"]_vars

\* C17: an uncancelled process_texts run over N texts with batch size B calls
\* the progress callback once after each slice, in slice order, ceil(N/B)
\* times in all, with the counts min(k*B, N) for k = 1..ceil(N/B) and total N.
C17_ProgressSequence ==
    /\ ((InProcessTexts \/ pc = "pt_return") /\ ~cancel_in_pt) =>
          /\ Len(progress_log) = Len(outcomes) - (IF pc = "store" THEN 1 ELSE 0)
          /\ \A k \in 1..Len(progress_log) :
                progress_log[k] = <<Min(k * batch_size, Len(CurTexts)), Len(CurTexts)>>
    /\ (pc = "pt_return" /\ ~cancel_in_pt) =>
          Len(progress_log) = NumSlices(Len(CurTexts))

\* three texts in slices of two: the callback saw (2, 3) and then (3, 3)
C17_Witness ==
    /\ pc = "pt_return" /\ ~cancel_in_pt
    /\ Len(CurTexts) = 3 /\ batch_size = 2
    /\ progress_log = <<(<<2, 3>>), (<<3, 3>>)>>

\* the position of a stage in the fixed order
StageIndex(st) == CHOOSE k \in 1..Len(StageOrder) : StageOrder[k] = st

\* C18: execute enters its stages in the fixed order Validate, Analyze, Backup,
\* Extract, PopulateCells, AutoDetect (only if requested), Translate, Apply,
\* Cleanup, skipping none of the first five; when validation reports an error
\* or analysis says the file cannot be processed it returns a FAILED response
\* at that stage and no later stage is entered.
C18_StageOrder ==
    /\ \A k \in 1..Len(stage_log) :
          /\ k <= 5 => stage_log[k] = StageOrder[k]
          /\ k > 1 => StageIndex(stage_log[k - 1]) < StageIndex(stage_log[k])
          /\ stage_log[k] = "AutoDetect" => request.auto_detect_source
          /\ (stage_log[k] = "Translate" /\ request.auto_detect_source) =>
                stage_log[k - 1] = "AutoDetect"
    /\ (stage_log # <<>>
          /\ (~validation_report.is_valid \/ validation_report.has_errors)) =>
          /\ stage_log = <<"Validate">>
          /\ ppc = "returned"
          /\ file_response.status = "FAILED"
    /\ (Len(stage_log) >= 2 /\ ~file_info.can_process) =>
          /\ stage_log = <<"Validate", "Analyze">>
          /\ ppc = "returned"
          /\ file_response.status = "FAILED"

\* the analysis said the file cannot be processed: FAILED, nothing after Analyze
C18_Witness ==
    /\ ppc = "returned"
    /\ ~file_info.can_process
    /\ stage_log = <<"Validate", "Analyze">>
    /\ file_response.status = "FAILED"
    /\ file_response.errors[1].error_message = "File cannot be processed"

\* C19: apply_translations is invoked only when the translation response is
\* SUCCESS or PARTIAL_SUCCESS and an output path was supplied; when it returns
\* false or raises, the status stays what the translation returned, a warning
\* is added and output_file_path stays unset; output_file_path is set only
\* when apply succeeded.
C19_ApplyGuarded ==
    /\ apply_outcome # NoneValue =>
          /\ translate_status \in {"SUCCESS", "PARTIAL_SUCCESS"}
          /\ output_path # NoneValue
    /\ apply_outcome \in {"false", "raise"} =>
          /\ translation_response.status = translate_status
          /\ translation_response.warnings = <<"Failed to save translated file">>
          /\ translation_response.output_file_path = NoneValue
          /\ file_response.output_file_path = NoneValue
          /\ ppc = "returned" => file_response = translation_response
    /\ \A r \in {translation_response, file_response} :
          r.output_file_path # NoneValue =>
              apply_outcome = "true" /\ r.output_file_path = output_path

\* apply raised after a partially successful translation: a warning, no path
C19_Witness ==
    /\ ppc = "returned"
    /\ apply_outcome = "raise"
    /\ file_response.status = "PARTIAL_SUCCESS"
    /\ file_response.warnings = <<"Failed to save translated file">>
    /\ file_response.output_file_path = NoneValue

\* C20: if backup creation raises, the run is not failed by it (Extract and the
\* later stages are still entered) and the returned response carries a warning
\* recording the backup failure.
C20_BackupFailureWarned ==
    (ppc = "returned" /\ backup_failed) =>
        /\ \E k \in 1..Len(stage_log) : stage_log[k] = "Extract"
        /\ file_response.warnings # <<>>

\* ceil(n / b) for b > 0
CeilDiv(n, b) == (n + b - 1) \div b
RECURSIVE SumCeilChunks(_)
SumCeilChunks(srs) ==
    IF srs = <<>> THEN 0
    ELSE CeilDiv(Head(srs).total_cells, batch_settings.batch_size)
           + SumCeilChunks(Tail(srs))

\* C27: metrics.api_calls_made equals the sum over the sheets of
\* ceil(sheet cell count / batch size), exact multiples of the batch size
\* included.
C27_ApiCallsCeil ==
    upc = "done" =>
        response.metrics.api_calls_made = SumCeilChunks(response.sheet_results)

\* C28: calculate_optimal_batch_size returns an integer in [10, 200] for every
\* combination of non-negative arguments.
C28_BatchSizeBounds ==
    opt_result.returned => opt_result.value \in 10..200

\* (2000 texts, average length 300, 10 MB) gives 91
C28_Witness ==
    /\ opt_result.returned
    /\ opt_args.total_texts = 2000 /\ opt_args.avg_text_length = 300
    /\ opt_args.file_size = 100
    /\ opt_result.value = 91

\* the factors as the claim words them, in tenths: a length or size of 0 counts
\* as below the first threshold
ClaimedCountFactor(t) ==
    CASE t < 100 -> 6 [] t >= 100 /\ t < 500 -> 10 [] t >= 500 /\ t < 1000 -> 15
      [] OTHER -> 20
ClaimedLengthFactor(l) ==
    CASE l < 50 -> 12 [] l >= 50 /\ l < 200 -> 10 [] OTHER -> 7
ClaimedSizeFactor(z) ==
    CASE z < 10 -> 8 [] z >= 10 /\ z < 50 -> 10 [] OTHER -> 13
ClampedFloor(thousandths) ==
    LET fl == thousandths \div 1000
    IN  IF fl < 10 THEN 10 ELSE IF fl > 200 THEN 200 ELSE fl

\* C29 as claimed: the result is clamp(floor(50 * countFactor * lengthFactor *
\* sizeFactor), 10, 200) with lengthFactor 1.2 for every length below 50 and
\* sizeFactor 0.8 for every size below 1 MB, 0 included.
C29_FormulaZeroIncluded ==
    opt_result.returned =>
        opt_result.value =
            ClampedFloor(50 * ClaimedCountFactor(opt_args.total_texts)
                            * ClaimedLengthFactor(opt_args.avg_text_length)
                            * ClaimedSizeFactor(opt_args.file_size))

\* C29 as amended: the same formula, where an average length of 0 and a file
\* size of 0 (the defaults, meaning not supplied) have factor 1.0.
C29_FormulaZeroNeutral ==
    opt_result.returned =>
        opt_result.value =
            ClampedFloor(50 * ClaimedCountFactor(opt_args.total_texts)
                            * (IF opt_args.avg_text_length = 0 THEN 10
                               ELSE ClaimedLengthFactor(opt_args.avg_text_length))
                            * (IF opt_args.file_size = 0 THEN 10
                               ELSE ClaimedSizeFactor(opt_args.file_size)))

\* no length and no size supplied for 99 texts: 50 * 0.6 = 30
C29_Witness ==
    /\ opt_result.returned
    /\ opt_args.total_texts = 99 /\ opt_args.avg_text_length = 0
    /\ opt_args.file_size = 0
    /\ opt_result.value = 30

\* a rule of the filter object matches the text
RuleMatches(t, f) ==
    \/ f.ignore_square_brackets /\ HasBracketSpan(t)
    \/ f.ignore_japanese_quotes /\ HasJapaneseQuotes(t)
    \/ f.ignore_urls /\ HasUrl(t)
    \/ f.ignore_emails /\ HasEmail(t)
    \/ f.ignore_numbers_only /\ IsNumbersOnly(t)
    \/ \E k \in 1..Len(f.custom_patterns) :
          PatternCompiles(f.custom_patterns[k]) /\ PatternMatches(f.custom_patterns[k], t)

\* C30: the sheet orchestrator's skip decision is true whenever an active
\* filter rule matches the text, custom patterns included, and false when the
\* text is not blank and no active rule matches; a custom pattern that does
\* not compile matches nothing and raises nothing.
C30_SkipDecision ==
    skip_result.skip # NoneValue =>
        /\ skip_result.skip # "raise"
        /\ RuleMatches(skip_args.text, skip_args.filters) => skip_result.skip = "skip"
        /\ (~IsBlankText(skip_args.text)
              /\ ~RuleMatches(skip_args.text, skip_args.filters)) =>
                 skip_result.skip = "keep"


\* C23: for every report execute returns, custom validators' results included,
\* report.is_valid is true exactly when no result has ERROR severity.
C23_ValidIffNoError ==
    vpc = "returned" =>
        (report_is_valid(report)
            <=> \A k \in 1..Len(report) : report[k].severity # "ERROR")

\* C24: a regular file above 500 MB yields the error FILE_TOO_LARGE and an
\* invalid report; one above 100 MB and up to 500 MB yields only the warning
\* LARGE_FILE.
C24_FileSizeLevels ==
    (vpc \notin {"none", "basic", "file"} /\ ~vrequest.language_settings.is_none
        /\ vrequest.file.exists /\ vrequest.file.is_file) =>
        /\ vrequest.file.size_mb > 500 =>
              /\ \E k \in 1..Len(report) : report[k] = ErrorEntry("FILE_TOO_LARGE")
              /\ ~report_is_valid(report)
        /\ (vrequest.file.size_mb > 100 /\ vrequest.file.size_mb <= 500) =>
              /\ \E k \in 1..Len(report) : report[k] = WarningEntry("LARGE_FILE")
              /\ \A k \in 1..Len(report) : report[k].code # "FILE_TOO_LARGE"

\* C25: execute never raises; a request built without language settings, batch
\* settings or content filters still gets a report, which holds an ERROR entry
\* and is invalid.
C25_NeverRaises ==
    /\ vpc # "raised"
    /\ (vpc = "returned"
          /\ (vrequest.language_settings.is_none \/ vrequest.batch_settings.is_none
                \/ vrequest.content_filters_missing)) =>
          /\ \E k \in 1..Len(report) : report[k].severity = "ERROR"
          /\ ~report_is_valid(report)

C25_Witness ==
    /\ vpc = "returned"
    /\ ~vrequest.language_settings.is_none
    /\ vrequest.batch_settings.is_none
    /\ \E k \in 1..Len(report) : report[k] = ErrorEntry("VALIDATION_FAILED")

\* what one validator contributes to the report: its results, or the single
\* VALIDATOR_ERROR entry when it raised
Contribution(v) == IF v.raises THEN <<ErrorEntry("VALIDATOR_ERROR")>> ELSE v.results

RECURSIVE Contributions(_)
Contributions(idxs) ==
    IF idxs = <<>> THEN <<>>
    ELSE Contribution(validators[Head(idxs)]) \o Contributions(Tail(idxs))

\* C26: a validator that raises adds exactly one VALIDATOR_ERROR error; what the
\* report held before is kept, and all validators are called, in order, each
\* one's results following the previous one's.
C26_ValidatorRaiseContained ==
    vidx >= 1 =>
        /\ ran = [k \in 1..(vidx - 1) |-> k]
        /\ report = loop_entry \o Contributions(ran)
        /\ vpc = "returned" => vidx = Len(validators) + 1

C26_Witness ==
    /\ vpc = "returned"
    /\ Len(validators) = 2
    /\ validators[1].raises
    /\ validators[2].results # <<>>
    /\ Len(loop_entry) > 0
    /\ ran = <<1, 2>>

CountedSamples ==
    {k \in 1..Len(request.cells) :
        /\ k <= 10
        /\ request.cells[k].text # ""
        /\ detections[k].language_code # "unknown"
        /\ detections[k].confidence >= 70}

TimesDetected(l) == Cardinality({k \in CountedSamples : detections[k].language_code = l})

\* C22: with auto-detect requested the source language becomes a language
\* detected most often among the counted samples, and stays as it was when no
\* sample counts; without auto-detect requested no detection call is made.
C22_AutoDetectRule ==
    /\ ~request.auto_detect_source =>
          (detect_calls = 0 /\ "AutoDetect" \notin {stage_log[k] : k \in 1..Len(stage_log)})
    /\ "AutoDetect" \in {stage_log[k] : k \in 1..Len(stage_log)} =>
          IF CountedSamples = {}
          THEN request.source_language = source_before
          ELSE /\ \E k \in CountedSamples :
                     request.source_language = detections[k].language_code
               /\ \A k \in CountedSamples :
                     TimesDetected(detections[k].language_code)
                        <= TimesDetected(request.source_language)

\* "en" is overwritten by "ja", detected with confidence exactly 0.7
C22_Witness ==
    /\ ppc = "translate"
    /\ source_before = "en"
    /\ request.source_language = "ja"
    /\ detect_calls = 1
    /\ \A k \in CountedSamples : detections[k].confidence = 70

\* C31: a request whose target language is empty gets, whatever its other
\* fields, the error MISSING_TARGET_LANGUAGE and an invalid report.
C31_MissingTargetLanguage ==
    (vpc \notin {"none", "basic"} /\ ~vrequest.language_settings.is_none
        /\ vrequest.language_settings.target_language = "") =>
        /\ \E k \in 1..Len(report) : report[k] = ErrorEntry("MISSING_TARGET_LANGUAGE")
        /\ ~report_is_valid(report)

C31_Witness ==
    /\ vpc = "returned"
    /\ vrequest.language_settings.target_language = ""
    /\ ~vrequest.language_settings.is_none
    /\ ~vrequest.file.exists
    /\ vrequest.batch_settings.is_none
    /\ report[1] = ErrorEntry("MISSING_TARGET_LANGUAGE")

\* the entries of the report with a given code and severity
EntriesOf(code, severity) ==
    Cardinality({k \in 1..Len(report) :
                    report[k].code = code /\ report[k].severity = severity})

\* the entries a setting must have produced: one error at or below (below)
\* the lower limit, one warning above the upper limit, nothing in between
ThresholdEntries(value, error_if, upper, error_code, warning_code) ==
    /\ EntriesOf(error_code, "ERROR") = (IF error_if THEN 1 ELSE 0)
    /\ EntriesOf(warning_code, "WARNING") = (IF ~error_if /\ value > upper THEN 1 ELSE 0)
    /\ EntriesOf(error_code, "WARNING") = 0
    /\ EntriesOf(warning_code, "ERROR") = 0

\* C32: batch_size <= 0 is an error and > 100 a warning; max_concurrent_requests
\* <= 0 an error and > 10 a warning; retry_attempts < 0 an error and > 5 a
\* warning; retry_delay < 0 an error and > 10 a warning; 100, 10, 5 and 10
\* themselves produce nothing.
C32_BatchThresholds ==
    (vpc \in {"content", "validators", "returned"}
        /\ ~vrequest.language_settings.is_none /\ ~vrequest.batch_settings.is_none) =>
        LET b == vrequest.batch_settings IN
        /\ ThresholdEntries(b.batch_size, b.batch_size <= 0, 100,
                            "INVALID_BATCH_SIZE", "LARGE_BATCH_SIZE")
        /\ ThresholdEntries(b.max_concurrent_requests, b.max_concurrent_requests <= 0, 10,
                            "INVALID_CONCURRENT_REQUESTS", "HIGH_CONCURRENT_REQUESTS")
        /\ ThresholdEntries(b.retry_attempts, b.retry_attempts < 0, 5,
                            "INVALID_RETRY_ATTEMPTS", "HIGH_RETRY_ATTEMPTS")
        /\ ThresholdEntries(b.retry_delay, b.retry_delay < 0, 10,
                            "INVALID_RETRY_DELAY", "LONG_RETRY_DELAY")

\* all four settings on their upper limits: no entry from the batch settings
C32_Witness ==
    /\ vpc = "returned"
    /\ vrequest.batch_settings.batch_size = 100
    /\ vrequest.batch_settings.max_concurrent_requests = 10
    /\ vrequest.batch_settings.retry_attempts = 5
    /\ vrequest.batch_settings.retry_delay = 10
    /\ validators = <<>>
    /\ report = <<>>

CodesOf(rs) == {rs[k].code : k \in 1..Len(rs)}

C34_CancelOnlyCurrentRun ==
    (starts = 2 /\ prev_cancelled /\ ~cancel_in_run /\ thread = "dead"
        /\ \E k \in 1..Len(tasks) : \E j \in 1..Len(tasks[k].texts) :
               ~IsBlank(tasks[k].texts[j])) =>
        calls_total > 0

\* C35: the wait between failed attempt k and attempt k+1 is 2^k seconds, plus
\* 5 seconds when the failure names a rate limit, and the last failed attempt
\* is followed by no wait.
C35_BackoffSchedule ==
    /\ pc = "backoff" =>
          /\ wait.after_attempt = attempt - 1
          /\ wait.seconds = CASE wait.after_attempt = 0 -> 1
                               [] wait.after_attempt = 1 -> 2
                               [] wait.after_attempt = 2 -> 4
                               [] wait.after_attempt = 3 -> 8
                               [] OTHER -> 0
          /\ wait.pause = (IF wait.error = "rate limit" THEN 5 ELSE 0)
          /\ attempt < max_retries
    /\ pc # "backoff" => wait = NoWait

\* the third failure of a slice, by a rate limit, is followed by 4 + 5 seconds
C35_Witness ==
    /\ pc = "backoff"
    /\ wait.after_attempt = 2
    /\ wait.seconds = 4
    /\ wait.pause = 5

\* C36: start_processing being called from one thread, at most one worker of
\* a manager is alive at any time, a call made while one is alive starts
\* nothing, and a provider call is in flight only inside that one worker.
C36_SingleWorker ==
    /\ workers_alive <= 1
    /\ workers_alive = (IF thread = "alive" THEN 1 ELSE 0)
    /\ pc = "in_call" => workers_alive = 1

\* a second start_processing came while the worker was in a provider call
C36_Witness ==
    /\ refused
    /\ pc = "in_call"
    /\ starts = 1
    /\ workers_alive = 1

\* the extracted cells the content filter does not ignore
NotIgnoredContent ==
    SelectSeq(content, LAMBDA c : ~should_ignore_text(c.text, request.content_filters))

\* C37: after a successful Extract, PopulateCells leaves in request.cells
\* exactly one cell per extracted text that the content filter does not ignore,
\* with its row and column, and the run goes on to the Translate stage.
C37_PopulateThenTranslate ==
    "PopulateCells" \in {stage_log[k] : k \in 1..Len(stage_log)} =>
        /\ Len(request.cells) = Len(NotIgnoredContent)
        /\ \A k \in 1..Len(request.cells) :
              /\ request.cells[k].text = NotIgnoredContent[k].text
              /\ request.cells[k].row = NotIgnoredContent[k].row
              /\ request.cells[k].column = NotIgnoredContent[k].column
        /\ ppc = "returned" => "Translate" \in {stage_log[k] : k \in 1..Len(stage_log)}

RECURSIVE SumSkipped(_)
SumSkipped(srs) ==
    IF srs = <<>> THEN 0 ELSE Head(srs).skipped_cells + SumSkipped(Tail(srs))
RECURSIVE SumTotalCells(_)
SumTotalCells(srs) ==
    IF srs = <<>> THEN 0 ELSE Head(srs).total_cells + SumTotalCells(Tail(srs))

\* C38: in a response built on the normal path the metrics' successful, failed
\* and skipped totals are the sums of the per-sheet counts, total_cells is the
\* number of request cells and the sum of the sheets' total_cells, and every
\* request cell belongs to exactly one sheet result.
C38_MetricsAreSums ==
    upc = "done" =>
        LET srs == response.sheet_results IN
        /\ response.metrics.successful_translations = SumSuccessful(srs)
        /\ response.metrics.failed_translations = SumFailed(srs)
        /\ response.metrics.skipped_cells = SumSkipped(srs)
        /\ response.metrics.total_cells = Len(cells)
        /\ response.metrics.total_cells = SumTotalCells(srs)
        /\ \A i \in 1..Len(cells) :
              Cardinality({k \in 1..Len(srs) :
                              srs[k].sheet_name = SheetNameOf(cells[i])}) = 1
        /\ \A k \in 1..Len(srs) :
              srs[k].total_cells =
                 Cardinality({i \in 1..Len(cells) :
                                 SheetNameOf(cells[i]) = srs[k].sheet_name})

\* three cells on two sheets, the sheets' cells interleaved
C38_Witness ==
    /\ upc = "done"
    /\ Len(cells) = 3
    /\ Len(response.sheet_results) = 2
    /\ SheetNameOf(cells[1]) = SheetNameOf(cells[3])
    /\ SheetNameOf(cells[1]) # SheetNameOf(cells[2])
    /\ response.metrics.failed_translations > 0
    /\ response.metrics.successful_translations > 0

\* C39: the data handed to apply_translations holds only cell results without
\* error_message, each with its own text, row and column, and only for sheets
\* with a successful cell; no failed cell's position is written.
C39_OnlySuccessfulApplied ==
    apc = "prepared" =>
        \A d \in 1..Len(translation_data) :
            \E k \in 1..Len(response.sheet_results) :
                LET sr == response.sheet_results[k] IN
                /\ sr.sheet_name = translation_data[d].sheet_name
                /\ sr.successful_translations > 0
                /\ \A t \in 1..Len(translation_data[d].translations) :
                      LET tr == translation_data[d].translations[t] IN
                      /\ \E j \in 1..Len(sr.cell_results) :
                            /\ sr.cell_results[j].error_message = NoneValue
                            /\ sr.cell_results[j].translated_text = tr.translated_text
                            /\ sr.cell_results[j].row = tr.row
                            /\ sr.cell_results[j].column = tr.column
                      /\ \A j \in 1..Len(sr.cell_results) :
                            sr.cell_results[j].error_message # NoneValue =>
                               ~(sr.cell_results[j].row = tr.row
                                  /\ sr.cell_results[j].column = tr.column)

\* a sheet with a translated and a failed cell: only the translated one is handed on
C39_Witness ==
    /\ apc = "prepared"
    /\ Len(translation_data) = 1
    /\ Len(translation_data[1].translations) = 1
    /\ translation_data[1].translations[1].translated_text # ""
    /\ \E j \in 1..Len(response.sheet_results[1].cell_results) :
          response.sheet_results[1].cell_results[j].error_message # NoneValue

====
